---- MODULE Spec2Model ----
\* Model of the interleaved-thinking engine (lib.ts): ToolCallManager,
\* StateManager, Logger and InterleavedThinkingServer.
\*
\* Conventions
\*  - An optional JavaScript value is <<>> (undefined) or <<v>> (the value v).
\*  - stepNumber, totalSteps, branchFromStep and revisesStep are JavaScript
\*    numbers and need not be integers: they are represented by TWICE their
\*    value, so that 1 is 2, 1.5 is 3 and `x - 1` is `x - One`.
\*    Milliseconds and counters are plain integers.
\*  - A message is the sequence of its words; String.includes is the
\*    contiguous-subsequence test on words.
EXTENDS Integers, Sequences, FiniteSets, TLC

VARIABLES
    steps,        \* StateManager.steps
    branches,     \* StateManager.branches, as the sequence of its entries in key order
    toolCalls,    \* StateManager.toolCalls
    callCount,    \* ToolCallManager.callCount
    resultCache,  \* ToolCallManager.resultCache
    mockResults,  \* ToolCallManager.mockResults
    config,       \* InterleavedThinkingServer.config
    input,        \* the argument of the latest processStep call, as submitted
    resp,         \* what the latest processStep call returned (or threw)
    attempted,    \* whether the latest call started simulateToolExecution
    lastOp,       \* the operation that ran last: "new", "processStep", "reset",
                  \* "injectMockResults", "await" when a call suspended, or
                  \* "lateSettle" when the loser of a race settled
    calls         \* the processStep calls in flight, one slot per caller

vars == <<steps, branches, toolCalls, callCount, resultCache, mockResults,
          config, input, resp, attempted, lastOp, calls>>

session == <<steps, branches, toolCalls, callCount, resultCache, mockResults>>

----------------------------------------------------------------------------
\* Bounds of the model

MaxSteps == 3

MaxBudget == 2

MaxValidated == 2

MaxOverlapSteps == 2

----------------------------------------------------------------------------
\* Optional values and numbers

Undefined == <<>>

Some(v) == <<v>>

IsDef(x) == x # <<>>

Get(x) == x[1]

Num(n) == 2 * n

One == Num(1)

IsInteger(x) == x % One = 0

\* JavaScript truthiness of an optional number, string or object
TruthyNum(x) == IsDef(x) /\ Get(x) # 0

TruthyStr(x) == IsDef(x) /\ Get(x) # ""

TruthyObj(x) == IsDef(x)

SetMin(S) == CHOOSE x \in S : \A y \in S : x <= y

\* String.prototype.includes on word sequences
includes(s, sub) ==
    \E i \in 1..(Len(s) - Len(sub) + 1) : SubSeq(s, i, i + Len(sub) - 1) = sub

----------------------------------------------------------------------------
\* Program constants

Phases == {"thinking", "tool_call", "analysis"}

DefaultTimeout == 30000

SimDelay == 10

MsgStepNumber == <<"stepNumber", "must", "be", "a", "positive", "integer">>

MsgTotalSteps == <<"totalSteps", "must", "be", "a", "positive", "integer">>

MsgNextStepNeeded == <<"nextStepNeeded", "is", "required">>

MsgPhase == <<"phase", "must", "be", "one", "of:", "thinking,", "tool_call,", "analysis">>

MsgToolCallRequired == <<"toolCall", "is", "required", "for", "tool_call", "phase">>

MsgLimit == <<"Tool", "call", "limit", "reached">>

MsgTimeout(timeout) == <<"Tool", "execution", "timeout", "after", ToString(timeout), "ms">>

\* TypeError raised by `input.stepNumber` when the argument itself is undefined
MsgNoInput == <<"Cannot", "read", "properties", "of", "undefined", "(reading", "'stepNumber')">>

\* TypeError raised by `content.length` in formatBox when thought is undefined
MsgNoThought == <<"Cannot", "read", "properties", "of", "undefined", "(reading", "'length')">>

\* TypeError raised by `this.branches[step.branchId].push(step)` when the
\* member found under branchId is not an array
MsgNoPush == <<"this.branches[step.branchId].push", "is", "not", "a", "function">>

----------------------------------------------------------------------------
\* Maps (Map<string, ToolResultData>): functions on the set of their keys

EmptyMap == <<>>

mapGet(map, key) == IF key \in DOMAIN map THEN Some(map[key]) ELSE Undefined

mapSet(map, key, value) ==
    [k \in (DOMAIN map) \cup {key} |-> IF k = key THEN value ELSE map[k]]

----------------------------------------------------------------------------
\* ToolCallManager

\* JSON.stringify(parameters): the entries in insertion order, without the
\* entries whose value is undefined
stringify(parameters) == SelectSeq(parameters, LAMBDA e : IsDef(e.value))

getCacheKey(toolCall) == <<toolCall.toolName, stringify(toolCall.parameters)>>

\* Mutant: the budget check is off by one
canExecuteToolCall_offByOne(S, cfg) == S.callCount <= cfg.maxToolCalls

canExecuteToolCall(S, cfg) == S.callCount < cfg.maxToolCalls

\* toolCall.metadata?.timeout || this.defaultTimeout
effectiveTimeout(toolCall, cfg) ==
    IF IsDef(toolCall.metadata) /\ TruthyNum(Get(toolCall.metadata).timeout)
    THEN Get(Get(toolCall.metadata).timeout)
    ELSE cfg.defaultTimeout

simulateToolExecution(toolCall) ==
    [toolName |-> toolCall.toolName,
     success |-> TRUE,
     result |-> Some([message |-> <<"Mock", "result", "for", toolCall.toolName>>,
                      parameters |-> toolCall.parameters]),
     error |-> Undefined,
     executionTime |-> 0,
     timestamp |-> ""]

\* Mutant: the timeout timer is never armed
raceWinners_noTimeoutTimer(timeout) ==
    IF timeout < SimDelay THEN {}
    ELSE {"executor"}

\* Which of the two timers of Promise.race can settle first: the executor
\* after SimDelay ms, the timeout after `timeout` ms
raceWinners(timeout) ==
    IF timeout < SimDelay THEN {"timeout"}
    ELSE IF timeout > SimDelay THEN {"executor"}
    ELSE {"executor", "timeout"}

\* Mutant: the slot is consumed before the budget is checked
executeBegin_countFirst(toolCall, S, cfg) ==
    LET S1 == [S EXCEPT !.callCount = @ + 1]
        key == getCacheKey(toolCall)
        mock == IF IsDef(S1.mockResults)
                THEN mapGet(Get(S1.mockResults), key) ELSE Undefined
        cached == IF cfg.enableResultCache
                  THEN mapGet(S1.resultCache, key) ELSE Undefined
    IN IF ~canExecuteToolCall(S, cfg)
       THEN [kind |-> "throw", msg |-> MsgLimit, result |-> Undefined, S |-> S1]
       ELSE IF IsDef(mock)
       THEN [kind |-> "return", msg |-> <<>>, result |-> mock, S |-> S1]
       ELSE IF IsDef(cached)
       THEN [kind |-> "return", msg |-> <<>>, result |-> cached, S |-> S1]
       ELSE [kind |-> "race", msg |-> <<>>, result |-> Undefined, S |-> S1]

\* Mutant: an invocation served from a mock or from the cache takes no slot
executeBegin_hitsAreFree(toolCall, S, cfg) ==
    IF ~canExecuteToolCall(S, cfg)
    THEN [kind |-> "throw", msg |-> MsgLimit, result |-> Undefined, S |-> S]
    ELSE LET S1 == [S EXCEPT !.callCount = @ + 1]
             key == getCacheKey(toolCall)
             mock == IF IsDef(S.mockResults)
                     THEN mapGet(Get(S.mockResults), key) ELSE Undefined
             cached == IF cfg.enableResultCache
                       THEN mapGet(S.resultCache, key) ELSE Undefined
         IN IF IsDef(mock)
            THEN [kind |-> "return", msg |-> <<>>, result |-> mock, S |-> S]
            ELSE IF IsDef(cached)
            THEN [kind |-> "return", msg |-> <<>>, result |-> cached, S |-> S]
            ELSE [kind |-> "race", msg |-> <<>>, result |-> Undefined, S |-> S1]

\* Mutant: the cache is looked up before the mock results
executeBegin_cacheFirst(toolCall, S, cfg) ==
    IF ~canExecuteToolCall(S, cfg)
    THEN [kind |-> "throw", msg |-> MsgLimit, result |-> Undefined, S |-> S]
    ELSE LET S1 == [S EXCEPT !.callCount = @ + 1]
             key == getCacheKey(toolCall)
             mock == IF IsDef(S1.mockResults)
                     THEN mapGet(Get(S1.mockResults), key) ELSE Undefined
             cached == IF cfg.enableResultCache
                       THEN mapGet(S1.resultCache, key) ELSE Undefined
         IN IF IsDef(cached)
            THEN [kind |-> "return", msg |-> <<>>, result |-> cached, S |-> S1]
            ELSE IF IsDef(mock)
            THEN [kind |-> "return", msg |-> <<>>, result |-> mock, S |-> S1]
            ELSE [kind |-> "race", msg |-> <<>>, result |-> Undefined, S |-> S1]

\* executeToolCall up to its await: the budget check, the increment, the mock
\* lookup and the cache lookup. kind is "throw", "return" or "race".
executeBegin(toolCall, S, cfg) ==
    IF ~canExecuteToolCall(S, cfg)
    THEN [kind |-> "throw", msg |-> MsgLimit, result |-> Undefined, S |-> S]
    ELSE LET S1 == [S EXCEPT !.callCount = @ + 1]
             key == getCacheKey(toolCall)
             mock == IF IsDef(S1.mockResults)
                     THEN mapGet(Get(S1.mockResults), key) ELSE Undefined
             cached == IF cfg.enableResultCache
                       THEN mapGet(S1.resultCache, key) ELSE Undefined
         IN IF IsDef(mock)
            THEN [kind |-> "return", msg |-> <<>>, result |-> mock, S |-> S1]
            ELSE IF IsDef(cached)
            THEN [kind |-> "return", msg |-> <<>>, result |-> cached, S |-> S1]
            ELSE [kind |-> "race", msg |-> <<>>, result |-> Undefined, S |-> S1]

\* Mutant: the result is cached whether or not caching is enabled
executeSettle_alwaysCaches(toolCall, S, cfg, winner) ==
    LET timeout == effectiveTimeout(toolCall, cfg) IN
    IF winner = "executor"
    THEN LET result == simulateToolExecution(toolCall)
             S1 == IF result.success
                   THEN [S EXCEPT !.resultCache = mapSet(@, getCacheKey(toolCall), result)]
                   ELSE S
         IN [result |-> [result EXCEPT !.executionTime = SimDelay, !.timestamp = "iso"],
             S |-> S1]
    ELSE LET message == MsgTimeout(timeout)
             isTimeout == includes(message, <<"timeout">>)
         IN [result |-> [toolName |-> toolCall.toolName,
                         success |-> FALSE,
                         result |-> Undefined,
                         error |-> Some([type |-> IF isTimeout THEN "TimeoutError"
                                                  ELSE "ToolExecutionError",
                                         message |-> message,
                                         recoveryStrategy |->
                                             IF isTimeout
                                             THEN "Use simpler tool or increase timeout"
                                             ELSE "Retry with adjusted parameters or use alternative tool"]),
                         executionTime |-> timeout,
                         timestamp |-> "iso"],
             S |-> S]

\* Mutant: a failure result is cached too
executeSettle_cachesFailures(toolCall, S, cfg, winner) ==
    LET timeout == effectiveTimeout(toolCall, cfg) IN
    IF winner = "executor"
    THEN LET result == simulateToolExecution(toolCall)
             S1 == IF cfg.enableResultCache /\ result.success
                   THEN [S EXCEPT !.resultCache = mapSet(@, getCacheKey(toolCall), result)]
                   ELSE S
         IN [result |-> [result EXCEPT !.executionTime = SimDelay, !.timestamp = "iso"],
             S |-> S1]
    ELSE LET message == MsgTimeout(timeout)
             isTimeout == includes(message, <<"timeout">>)
             failure == [toolName |-> toolCall.toolName,
                         success |-> FALSE,
                         result |-> Undefined,
                         error |-> Some([type |-> IF isTimeout THEN "TimeoutError"
                                                  ELSE "ToolExecutionError",
                                         message |-> message,
                                         recoveryStrategy |->
                                             IF isTimeout
                                             THEN "Use simpler tool or increase timeout"
                                             ELSE "Retry with adjusted parameters or use alternative tool"]),
                         executionTime |-> timeout,
                         timestamp |-> "iso"]
         IN [result |-> failure,
             S |-> IF cfg.enableResultCache
                   THEN [S EXCEPT !.resultCache = mapSet(@, getCacheKey(toolCall), failure)]
                   ELSE S]

\* executeToolCall after the race has settled for `winner`: the try block
\* (cache write, stamped copy of the result) or the catch block
executeSettle(toolCall, S, cfg, winner) ==
    LET timeout == effectiveTimeout(toolCall, cfg) IN
    IF winner = "executor"
    THEN LET result == simulateToolExecution(toolCall)
             S1 == IF cfg.enableResultCache /\ result.success
                   THEN [S EXCEPT !.resultCache = mapSet(@, getCacheKey(toolCall), result)]
                   ELSE S
         IN [result |-> [result EXCEPT !.executionTime = SimDelay, !.timestamp = "iso"],
             S |-> S1]
    ELSE LET message == MsgTimeout(timeout)
             isTimeout == includes(message, <<"timeout">>)
         IN [result |-> [toolName |-> toolCall.toolName,
                         success |-> FALSE,
                         result |-> Undefined,
                         error |-> Some([type |-> IF isTimeout THEN "TimeoutError"
                                                  ELSE "ToolExecutionError",
                                         message |-> message,
                                         recoveryStrategy |->
                                             IF isTimeout
                                             THEN "Use simpler tool or increase timeout"
                                             ELSE "Retry with adjusted parameters or use alternative tool"]),
                         executionTime |-> timeout,
                         timestamp |-> "iso"],
             S |-> S]

\* Mutant: reset forgets the injected mock results as well
managerReset_dropsMocks(S) ==
    [S EXCEPT !.callCount = 0, !.resultCache = EmptyMap, !.mockResults = Undefined]

\* Mutant: reset leaves the cache as it is
managerReset_keepsCache(S) == [S EXCEPT !.callCount = 0]

managerReset(S) == [S EXCEPT !.callCount = 0, !.resultCache = EmptyMap]

\* The sum of executionTime over the cache entries under `keys`
RECURSIVE cachedTime(_, _)
cachedTime(cache, keys) ==
    IF keys = {} THEN 0
    ELSE LET key == CHOOSE k \in keys : TRUE
         IN cache[key].executionTime + cachedTime(cache, keys \ {key})

\* ToolCallManager.getStatistics(): one pass over resultCache.values()
getStatistics(S) ==
    LET cache == S.resultCache IN
    [totalCalls |-> S.callCount,
     successfulCalls |-> Cardinality({k \in DOMAIN cache : cache[k].success}),
     failedCalls |-> Cardinality({k \in DOMAIN cache : ~cache[k].success}),
     totalExecutionTime |-> cachedTime(cache, DOMAIN cache)]

----------------------------------------------------------------------------
\* StateManager

branchIndex(br, id) == {i \in DOMAIN br : br[i].id = id}

\* `branches` is a plain object ({}): under these keys `this.branches[key]`
\* finds a member inherited from Object.prototype, which is truthy and has
\* no push method
ObjectPrototypeKeys ==
    {"constructor", "__proto__", "toString", "valueOf", "hasOwnProperty",
     "isPrototypeOf", "propertyIsEnumerable", "toLocaleString"}

\* addStep throws, after the push onto the main sequence, when the branch
\* bucket it finds is an inherited member
addStepThrows(step) ==
    /\ TruthyNum(step.branchFromStep) /\ TruthyStr(step.branchId)
    /\ Get(step.branchId) \in ObjectPrototypeKeys

\* Mutant: a revision replaces the step it revises
addStep_revisionReplaces(S, step) ==
    LET revised == {i \in DOMAIN S.steps :
                       /\ step.isRevision = Some(TRUE)
                       /\ S.steps[i].stepNumber = step.revisesStep}
    IN IF revised # {}
       THEN [S EXCEPT !.steps = [i \in DOMAIN @ |-> IF i \in revised THEN step ELSE @[i]]]
       ELSE [S EXCEPT !.steps = Append(@, step)]

\* Mutant: every branch step opens a new bucket
addStep_newBucketEachTime(S, step) ==
    LET S1 == [S EXCEPT !.steps = Append(@, step)] IN
    IF addStepThrows(step) THEN S1
    ELSE IF TruthyNum(step.branchFromStep) /\ TruthyStr(step.branchId)
    THEN [S1 EXCEPT !.branches =
              Append(@, [id |-> Get(step.branchId), steps |-> <<step>>])]
    ELSE S1

\* The StateManager once addStep has returned or thrown
addStep(S, step) ==
    LET S1 == [S EXCEPT !.steps = Append(@, step)] IN
    IF addStepThrows(step) THEN S1
    ELSE IF TruthyNum(step.branchFromStep) /\ TruthyStr(step.branchId)
    THEN LET id == Get(step.branchId)
             br == IF branchIndex(S1.branches, id) = {}
                   THEN Append(S1.branches, [id |-> id, steps |-> <<>>])
                   ELSE S1.branches
             i == CHOOSE j \in branchIndex(br, id) : TRUE
         IN [S1 EXCEPT !.branches = [br EXCEPT ![i].steps = Append(@, step)]]
    ELSE S1

addToolCall(S, record) == [S EXCEPT !.toolCalls = Append(@, record)]

\* Mutant: the last match instead of the first
getStep_last(stepSeq, stepNumber) ==
    LET found == {i \in DOMAIN stepSeq : Get(stepSeq[i].stepNumber) = stepNumber}
    IN IF found = {} THEN Undefined
       ELSE Some(stepSeq[CHOOSE i \in found : \A j \in found : j <= i])

\* this.steps.find(...): the first match
getStep(stepSeq, stepNumber) ==
    LET found == {i \in DOMAIN stepSeq : Get(stepSeq[i].stepNumber) = stepNumber}
    IN IF found = {} THEN Undefined ELSE Some(stepSeq[SetMin(found)])

getLastToolResult(S) ==
    IF Len(S.toolCalls) = 0 THEN Undefined
    ELSE Some(S.toolCalls[Len(S.toolCalls)].result)

RECURSIVE countWhere(_, _)
countWhere(records, wanted) ==
    IF records = <<>> THEN 0
    ELSE (IF Head(records).result.success = wanted THEN 1 ELSE 0)
         + countWhere(Tail(records), wanted)

RECURSIVE sumExecutionTime(_)
sumExecutionTime(records) ==
    IF records = <<>> THEN 0
    ELSE Head(records).result.executionTime + sumExecutionTime(Tail(records))

\* Mutant: failures are not counted
calculateStatistics_noFailures(S) ==
    [totalSteps |-> Len(S.steps),
     totalToolCalls |-> Len(S.toolCalls),
     successfulToolCalls |-> countWhere(S.toolCalls, TRUE),
     failedToolCalls |-> 0,
     totalExecutionTime |-> sumExecutionTime(S.toolCalls)]

calculateStatistics(S) ==
    [totalSteps |-> Len(S.steps),
     totalToolCalls |-> Len(S.toolCalls),
     successfulToolCalls |-> countWhere(S.toolCalls, TRUE),
     failedToolCalls |-> countWhere(S.toolCalls, FALSE),
     totalExecutionTime |-> sumExecutionTime(S.toolCalls)]

getHistory(S) ==
    [steps |-> S.steps,
     branches |-> S.branches,
     toolCalls |-> S.toolCalls,
     statistics |-> calculateStatistics(S)]

----------------------------------------------------------------------------
\* Logger

\* logThinkingStep / logAnalysisStep: formatBox reads content.length of the
\* thought, which throws a TypeError when the thought is undefined
logStepThrows(step, cfg) == ~cfg.disableLogging /\ ~IsDef(step.thought)

----------------------------------------------------------------------------
\* InterleavedThinkingServer

\* Mutant: a step without a phase is rejected
validateInput_phaseRequired(arg) ==
    IF ~IsDef(arg) THEN Some(MsgNoInput)
    ELSE LET in == Get(arg) IN
         IF ~TruthyNum(in.stepNumber) \/ Get(in.stepNumber) < One
         THEN Some(MsgStepNumber)
         ELSE IF ~TruthyNum(in.totalSteps) \/ Get(in.totalSteps) < One
         THEN Some(MsgTotalSteps)
         ELSE IF in.nextStepNeeded = Undefined
         THEN Some(MsgNextStepNeeded)
         ELSE IF ~TruthyStr(in.phase) \/ Get(in.phase) \notin Phases
         THEN Some(MsgPhase)
         ELSE Undefined

\* The message of the error validateInput throws for `arg`, or Undefined.
\* NaN, null and undefined all fail `!x`; undefined stands for the three.
validateInput(arg) ==
    IF ~IsDef(arg) THEN Some(MsgNoInput)
    ELSE LET in == Get(arg) IN
         IF ~TruthyNum(in.stepNumber) \/ Get(in.stepNumber) < One
         THEN Some(MsgStepNumber)
         ELSE IF ~TruthyNum(in.totalSteps) \/ Get(in.totalSteps) < One
         THEN Some(MsgTotalSteps)
         ELSE IF in.nextStepNeeded = Undefined
         THEN Some(MsgNextStepNeeded)
         ELSE IF TruthyStr(in.phase) /\ Get(in.phase) \notin Phases
         THEN Some(MsgPhase)
         ELSE Undefined

inferPhase(in, S) ==
    IF TruthyStr(in.phase) THEN Get(in.phase)
    ELSE IF TruthyObj(in.toolCall) THEN "tool_call"
    ELSE LET lastStep == getStep(S.steps, Get(in.stepNumber) - One) IN
         IF IsDef(lastStep) /\ Get(lastStep).phase = Some("tool_call")
         THEN "analysis"
         ELSE "thinking"

\* Mutant: the phase is inferred only when it is undefined
resolvePhase_onlyUndefined(in, S) ==
    IF ~IsDef(in.phase) THEN [in EXCEPT !.phase = Some(inferPhase(in, S))] ELSE in

\* processStep, "Auto-infer phase if not provided"
resolvePhase(in, S) ==
    IF ~TruthyStr(in.phase) THEN [in EXCEPT !.phase = Some(inferPhase(in, S))] ELSE in

\* Mutant: totalSteps is never adjusted
adjustTotalSteps_never(in) == in

\* Mutant: stepNumber is lowered to totalSteps instead
adjustTotalSteps_lowersStepNumber(in) ==
    IF Get(in.stepNumber) > Get(in.totalSteps)
    THEN [in EXCEPT !.stepNumber = in.totalSteps]
    ELSE in

\* processStep, "Auto-adjust totalSteps if needed"
adjustTotalSteps(in) ==
    IF Get(in.stepNumber) > Get(in.totalSteps)
    THEN [in EXCEPT !.totalSteps = in.stepNumber]
    ELSE in

handleError(errorMessage) ==
    LET errorType ==
            IF includes(errorMessage, <<"limit", "reached">>) THEN "ToolCallLimitError"
            ELSE IF includes(errorMessage, <<"timeout">>) THEN "TimeoutError"
            ELSE IF includes(errorMessage, <<"required">>) THEN "ValidationError"
            ELSE "Error"
        recoveryStrategy ==
            IF includes(errorMessage, <<"limit", "reached">>)
            THEN "Summarize progress and terminate or reset the server"
            ELSE IF includes(errorMessage, <<"timeout">>)
            THEN "Use simpler tool or increase timeout"
            ELSE IF includes(errorMessage, <<"required">>)
            THEN "Provide all required fields"
            ELSE "Check input parameters and try again"
    IN [threw |-> FALSE,
        isError |-> Some(TRUE),
        payload |-> [error |-> [type |-> errorType,
                                message |-> errorMessage,
                                recoveryStrategy |-> recoveryStrategy],
                     status |-> "failed"]]

\* The result of a block of processStep: an exception thrown with message
\* Get(thrown), or normal completion
Throw(msg, S, attempt) ==
    [thrown |-> Some(msg), in |-> Undefined, S |-> S,
     toolResult |-> Undefined, attempted |-> attempt]

Normal(in, S, toolResult, attempt) ==
    [thrown |-> Undefined, in |-> Some(in), S |-> S,
     toolResult |-> toolResult, attempted |-> attempt]

\* Mutant: the step is recorded before it is validated
prepare_recordFirst(arg, S) ==
    LET invalid == validateInput(arg)
        S1 == IF IsDef(arg) THEN [S EXCEPT !.steps = Append(@, Get(arg))] ELSE S
    IN IF IsDef(invalid) THEN Throw(Get(invalid), S1, FALSE)
       ELSE Normal(adjustTotalSteps(resolvePhase(Get(arg), S)), S, Undefined, FALSE)

\* Mutant: once a step with nextStepNeeded false is stored, steps are refused
prepare_closedAfterFinal(arg, S) ==
    LET invalid == validateInput(arg) IN
    IF IsDef(invalid) THEN Throw(Get(invalid), S, FALSE)
    ELSE IF \E i \in DOMAIN S.steps : S.steps[i].nextStepNeeded = Some(FALSE)
    THEN Throw(MsgNextStepNeeded, S, FALSE)
    ELSE Normal(adjustTotalSteps(resolvePhase(Get(arg), S)), S, Undefined, FALSE)

\* processStep: validation, phase resolution, totalSteps adjustment
prepare(arg, S) ==
    LET invalid == validateInput(arg) IN
    IF IsDef(invalid) THEN Throw(Get(invalid), S, FALSE)
    ELSE Normal(adjustTotalSteps(resolvePhase(Get(arg), S)), S, Undefined, FALSE)

\* processStep, case "tool_call", after executeToolCall has returned `result`:
\* the record is added and the result is attached to the step
recordToolCall(in, S, result) ==
    Normal([in EXCEPT !.toolResult = Some(result)],
           addToolCall(S, [stepNumber |-> Get(in.stepNumber),
                           toolCall |-> Get(in.toolCall),
                           result |-> result]),
           Some(result), FALSE)

\* Mutant: an invocation served from a mock or from the cache is not logged
toolCallCase_hitsUnrecorded(in, S, cfg, winner) ==
    IF ~TruthyObj(in.toolCall) THEN Throw(MsgToolCallRequired, S, FALSE)
    ELSE LET toolCall == Get(in.toolCall)
             b == executeBegin(toolCall, S, cfg)
         IN IF b.kind = "throw" THEN Throw(b.msg, b.S, FALSE)
            ELSE IF b.kind = "return"
            THEN Normal([in EXCEPT !.toolResult = b.result], b.S, b.result, FALSE)
            ELSE LET e == executeSettle(toolCall, b.S, cfg, winner)
                 IN [recordToolCall(in, e.S, e.result) EXCEPT !.attempted = TRUE]

\* Mutant: the slot is taken before the toolCall is looked at
toolCallCase_countsFirst(in, S, cfg, winner) ==
    IF ~TruthyObj(in.toolCall)
    THEN Throw(MsgToolCallRequired, [S EXCEPT !.callCount = @ + 1], FALSE)
    ELSE LET toolCall == Get(in.toolCall)
             b == executeBegin(toolCall, S, cfg)
         IN IF b.kind = "throw" THEN Throw(b.msg, b.S, FALSE)
            ELSE IF b.kind = "return"
            THEN recordToolCall(in, b.S, Get(b.result))
            ELSE LET e == executeSettle(toolCall, b.S, cfg, winner)
                 IN [recordToolCall(in, e.S, e.result) EXCEPT !.attempted = TRUE]

\* Mutant: a failure result is thrown instead of recorded
toolCallCase_failureThrows(in, S, cfg, winner) ==
    IF ~TruthyObj(in.toolCall) THEN Throw(MsgToolCallRequired, S, FALSE)
    ELSE LET toolCall == Get(in.toolCall)
             b == executeBegin(toolCall, S, cfg)
         IN IF b.kind = "throw" THEN Throw(b.msg, b.S, FALSE)
            ELSE IF b.kind = "return"
            THEN recordToolCall(in, b.S, Get(b.result))
            ELSE LET e == executeSettle(toolCall, b.S, cfg, winner)
                 IN IF e.result.success
                    THEN [recordToolCall(in, e.S, e.result) EXCEPT !.attempted = TRUE]
                    ELSE Throw(Get(e.result.error).message, e.S, TRUE)

\* processStep, case "tool_call"
toolCallCase(in, S, cfg, winner) ==
    IF ~TruthyObj(in.toolCall) THEN Throw(MsgToolCallRequired, S, FALSE)
    ELSE LET toolCall == Get(in.toolCall)
             b == executeBegin(toolCall, S, cfg)
         IN IF b.kind = "throw" THEN Throw(b.msg, b.S, FALSE)
            ELSE IF b.kind = "return"
            THEN recordToolCall(in, b.S, Get(b.result))
            ELSE LET e == executeSettle(toolCall, b.S, cfg, winner)
                 IN [recordToolCall(in, e.S, e.result) EXCEPT !.attempted = TRUE]

\* Mutant: a step that carries a toolCall runs it whatever its phase
phaseCase_toolCallAlwaysRuns(in, S, cfg, winner) ==
    IF in.phase = Some("tool_call") \/ TruthyObj(in.toolCall)
    THEN toolCallCase(in, S, cfg, winner)
    ELSE IF in.phase = Some("thinking")
    THEN IF logStepThrows(in, cfg) THEN Throw(MsgNoThought, S, FALSE)
         ELSE Normal(in, S, Undefined, FALSE)
    ELSE IF in.phase = Some("analysis")
    THEN IF logStepThrows(in, cfg) THEN Throw(MsgNoThought, S, FALSE)
         ELSE Normal(in, S, getLastToolResult(S), FALSE)
    ELSE Normal(in, S, Undefined, FALSE)

\* Mutant: a thinking step is given the last tool result too
phaseCase_thinkingSeesResult(in, S, cfg, winner) ==
    IF in.phase = Some("thinking")
    THEN IF logStepThrows(in, cfg) THEN Throw(MsgNoThought, S, FALSE)
         ELSE Normal(in, S, getLastToolResult(S), FALSE)
    ELSE IF in.phase = Some("tool_call")
    THEN toolCallCase(in, S, cfg, winner)
    ELSE IF in.phase = Some("analysis")
    THEN IF logStepThrows(in, cfg) THEN Throw(MsgNoThought, S, FALSE)
         ELSE Normal(in, S, getLastToolResult(S), FALSE)
    ELSE Normal(in, S, Undefined, FALSE)

\* processStep, the switch on input.phase
phaseCase(in, S, cfg, winner) ==
    IF in.phase = Some("thinking")
    THEN IF logStepThrows(in, cfg) THEN Throw(MsgNoThought, S, FALSE)
         ELSE Normal(in, S, Undefined, FALSE)
    ELSE IF in.phase = Some("tool_call")
    THEN toolCallCase(in, S, cfg, winner)
    ELSE IF in.phase = Some("analysis")
    THEN IF logStepThrows(in, cfg) THEN Throw(MsgNoThought, S, FALSE)
         ELSE Normal(in, S, getLastToolResult(S), FALSE)
    ELSE Normal(in, S, Undefined, FALSE)

branchIds(br) == [i \in DOMAIN br |-> br[i].id]

\* processStep, "Build response"
buildResponse(in, S, toolResult) ==
    LET history == getHistory(S) IN
    [stepNumber |-> Get(in.stepNumber),
     totalSteps |-> Get(in.totalSteps),
     nextStepNeeded |-> Get(in.nextStepNeeded),
     branches |-> branchIds(history.branches),
     stepHistoryLength |-> Len(history.steps),
     phase |-> Get(in.phase),
     toolResult |-> IF IsDef(toolResult)
                    THEN Some([success |-> Get(toolResult).success,
                               executionTime |-> Get(toolResult).executionTime])
                    ELSE Undefined]

\* processStep, "Add step to history" and the response
commit(in, S, toolResult) ==
    LET S1 == addStep(S, in) IN
    IF addStepThrows(in)
    THEN [S |-> S1, ret |-> handleError(MsgNoPush)]
    ELSE [S |-> S1,
          ret |-> [threw |-> FALSE, isError |-> Undefined,
                   payload |-> buildResponse(in, S1, toolResult)]]

\* The body of the try block of processStep
tryBlock(arg, S, cfg, winner) ==
    LET p == prepare(arg, S) IN
    IF IsDef(p.thrown) THEN p
    ELSE phaseCase(Get(p.in), p.S, cfg, winner)

\* Mutant: validateInput is called before the try block
processStep_validateOutsideTry(arg, S, cfg, winner) ==
    LET invalid == validateInput(arg)
        t == tryBlock(arg, S, cfg, winner)
    IN IF IsDef(invalid)
       THEN [S |-> S,
             ret |-> [threw |-> TRUE, isError |-> Undefined, payload |-> Get(invalid)],
             attempted |-> FALSE]
       ELSE IF IsDef(t.thrown)
       THEN [S |-> t.S, ret |-> handleError(Get(t.thrown)), attempted |-> t.attempted]
       ELSE LET c == commit(Get(t.in), t.S, t.toolResult)
            IN [S |-> c.S, ret |-> c.ret, attempted |-> t.attempted]

\* processStep: the session after the call, what the call returns, and
\* whether it started the tool
processStep(arg, S, cfg, winner) ==
    LET t == tryBlock(arg, S, cfg, winner) IN
    IF IsDef(t.thrown)
    THEN [S |-> t.S, ret |-> handleError(Get(t.thrown)), attempted |-> t.attempted]
    ELSE LET c == commit(Get(t.in), t.S, t.toolResult)
         IN [S |-> c.S, ret |-> c.ret, attempted |-> t.attempted]

\* The outcomes of the race the call reaches, "none" when it reaches none
winners(arg, S, cfg) ==
    LET p == prepare(arg, S) IN
    IF ~IsDef(p.thrown)
       /\ Get(p.in).phase = Some("tool_call")
       /\ TruthyObj(Get(p.in).toolCall)
       /\ executeBegin(Get(Get(p.in).toolCall), S, cfg).kind = "race"
    THEN raceWinners(effectiveTimeout(Get(Get(p.in).toolCall), cfg))
    ELSE {"none"}

----------------------------------------------------------------------------
\* The transport: the handler registered for the tool. `result` is what
\* processStep returned; content stands for the JSON text of the payload and
\* structuredContent for that text parsed again.

\* index.ts: both branches return content and structuredContent, and
\* neither copies isError
registerToolHandler(result) ==
    IF TruthyObj(result.isError)
    THEN [content |-> result.payload,
          structuredContent |-> Some(result.payload),
          isError |-> Undefined]
    ELSE [content |-> result.payload,
          structuredContent |-> Some(result.payload),
          isError |-> Undefined]

\* The earlier handler: a failed step is returned with isError overwritten
\* by undefined
registerToolHandler_v1(result) ==
    IF TruthyObj(result.isError)
    THEN [content |-> result.payload,
          structuredContent |-> Undefined,
          isError |-> Undefined]
    ELSE [content |-> result.payload,
          structuredContent |-> Some(result.payload),
          isError |-> Undefined]

----------------------------------------------------------------------------
\* Inputs

Step(thought, stepNumber, totalSteps, nextStepNeeded, phase, toolCall) ==
    [thought |-> thought,
     stepNumber |-> stepNumber,
     totalSteps |-> totalSteps,
     nextStepNeeded |-> nextStepNeeded,
     isRevision |-> Undefined,
     revisesStep |-> Undefined,
     branchFromStep |-> Undefined,
     branchId |-> Undefined,
     phase |-> phase,
     toolCall |-> toolCall,
     toolResult |-> Undefined]

ToolCall(toolName, parameters, metadata) ==
    [toolName |-> toolName, parameters |-> parameters, metadata |-> metadata]

Fetch == ToolCall("fetch", <<[key |-> "q", value |-> Some("x")]>>, Undefined)

OptPhases == {Undefined} \cup {Some(p) : p \in Phases}

\* Think / call / reflect traffic, with a few malformed steps
Inputs ==
    {Some(Step(Some("t"), Some(sn), Some(Num(2)), Some(TRUE), ph, tc)) :
        sn \in {Num(1), Num(2)}, ph \in OptPhases, tc \in {Undefined, Some(Fetch)}}
    \cup {Some(Step(Some("t"), Undefined, Some(Num(2)), Some(TRUE), Undefined, Some(Fetch))),
          Some(Step(Some("t"), Some(Num(1)), Some(0), Some(TRUE), Some("tool_call"), Some(Fetch))),
          Some(Step(Some("t"), Some(Num(1)), Some(Num(2)), Undefined, Undefined, Undefined)),
          Some(Step(Some("t"), Some(Num(2)), Some(Num(2)), Some(TRUE), Some("bogus"), Some(Fetch)))}

Configs ==
    [maxToolCalls : 1..MaxBudget,
     defaultTimeout : {DefaultTimeout},
     disableLogging : {TRUE},
     enableResultCache : {TRUE},
     testMode : {FALSE}]

\* Malformed steps: every combination of a missing, zero, negative or
\* non-integer stepNumber, a missing or zero totalSteps, a missing
\* nextStepNeeded and an unknown phase; steps without a thought; steps with
\* and without a toolCall; no argument at all
ValidateInputs ==
    {Undefined}
    \cup {Some(Step(Some("t"), sn, ts, nsn, ph, Undefined)) :
            sn \in {Undefined, Some(0), Some(Num(-1)), Some(Num(1)), Some(Num(1) + 1)},
            ts \in {Undefined, Some(0), Some(Num(1))},
            nsn \in {Undefined, Some(TRUE)},
            ph \in {Undefined, Some("bogus")}}
    \cup {Some(Step(Some("t"), Some(Num(1)), Some(Num(1) + 1), Some(TRUE), Undefined, Undefined))}
    \cup {Some(Step(th, Some(Num(1)), Some(Num(1)), Some(TRUE), ph, tc)) :
            th \in {Undefined, Some("t")},
            ph \in {Undefined, Some("tool_call"), Some("analysis")},
            tc \in {Undefined, Some(Fetch)}}

ConfigsValidate ==
    [maxToolCalls : {1},
     defaultTimeout : {DefaultTimeout},
     disableLogging : BOOLEAN,
     enableResultCache : {TRUE},
     testMode : {FALSE}]

\* A step that revises the step numbered `revisesStep`
Revision(stepNumber, revisesStep) ==
    [Step(Some("r"), Some(stepNumber), Some(Num(3)), Some(TRUE), Undefined, Undefined)
        EXCEPT !.isRevision = Some(TRUE), !.revisesStep = Some(revisesStep)]

\* Thinking steps over a range of stepNumber and totalSteps, and revisions
\* of step 1
TotalsInputs ==
    {Some(Step(Some("t"), Some(sn), Some(ts), Some(TRUE), Some("thinking"), Undefined)) :
        sn \in {Num(1), Num(1) + 1, Num(2), Num(3)},
        ts \in {Num(1), Num(2), Num(3)}}
    \cup {Some(Revision(Num(1), Num(1))), Some(Revision(Num(2), Num(1)))}

\* Tool calls: without metadata, with a timeout below the executor's delay,
\* with a timeout equal to it, and for another tool
Timeout(ms) == Some([timeout |-> Some(ms), retryCount |-> Undefined, priority |-> Undefined])

FetchHasty == [Fetch EXCEPT !.metadata = Timeout(SimDelay - 1)]

FetchEven == [Fetch EXCEPT !.metadata = Timeout(SimDelay)]

Store == ToolCall("store", <<>>, Undefined)

ToolCallsUsed == {Fetch, FetchHasty, FetchEven, Store}

\* Steps that invoke a tool, and a step without a tool call, on a branch,
\* that reflects on the result
ToolInputs ==
    {Some(Step(Some("t"), Some(Num(1)), Some(Num(1)), Some(TRUE), Undefined, Some(tc))) :
        tc \in ToolCallsUsed}
    \cup {Some([Step(Some("t"), Some(Num(2)), Some(Num(2)), Some(FALSE), Undefined, Undefined)
                   EXCEPT !.branchFromStep = Some(Num(1)), !.branchId = Some("b1")])}

ConfigsTools ==
    [maxToolCalls : 1..MaxBudget,
     defaultTimeout : {DefaultTimeout},
     disableLogging : {TRUE},
     enableResultCache : BOOLEAN,
     testMode : {FALSE}]

\* Fixtures a test injects: a success and a failure for the key of Fetch
MockOk ==
    [toolName |-> "fetch",
     success |-> TRUE,
     result |-> Some([message |-> <<"fixture">>, parameters |-> <<>>]),
     error |-> Undefined,
     executionTime |-> 1,
     timestamp |-> "fixture"]

MockFail ==
    [toolName |-> "fetch",
     success |-> FALSE,
     result |-> Undefined,
     error |-> Some([type |-> "ToolExecutionError",
                     message |-> <<"fixture", "failure">>,
                     recoveryStrategy |-> "Retry with adjusted parameters or use alternative tool"]),
     executionTime |-> 1,
     timestamp |-> "fixture"]

Fixtures == {MockOk, MockFail}

\* The maps a test injects: one fixture for the key of Fetch, or no entry
MockMaps == {EmptyMap} \cup {mapSet(EmptyMap, getCacheKey(Fetch), r) : r \in Fixtures}

\* Steps with and without branch fields, among them a falsy branchFromStep,
\* an empty branchId and a branchId that names a member of Object.prototype
BranchStep(stepNumber, branchFromStep, branchId) ==
    [Step(Some("t"), Some(stepNumber), Some(Num(2)), Some(TRUE), Some("thinking"), Undefined)
        EXCEPT !.branchFromStep = branchFromStep, !.branchId = branchId]

\* and, on branch b1, steps without a phase, with an empty, an unknown and
\* another known phase
BranchInputs ==
    {Some(BranchStep(Num(2), from, id)) :
        from \in {Undefined, Some(0), Some(Num(1))},
        id \in {Undefined, Some(""), Some("b1"), Some("b2"), Some("constructor")}}
    \cup {Some([BranchStep(Num(2), Some(Num(1)), Some("b1")) EXCEPT !.phase = ph]) :
            ph \in {Undefined, Some(""), Some("bogus"), Some("analysis")}}

----------------------------------------------------------------------------
\* The session and its operations

Session ==
    [steps |-> steps, branches |-> branches, toolCalls |-> toolCalls,
     callCount |-> callCount, resultCache |-> resultCache,
     mockResults |-> mockResults]

\* The callers that may have a processStep call in flight at the same time
Callers == {"c1", "c2"}

\* A slot with no call in flight
Idle == [status |-> "idle", arg |-> Undefined, in |-> Undefined,
         held |-> Undefined, loser |-> "none"]

InitWith(cfgs) ==
    /\ steps = <<>>
    /\ branches = <<>>
    /\ toolCalls = <<>>
    /\ callCount = 0
    /\ resultCache = EmptyMap
    /\ mockResults = Undefined
    /\ config \in cfgs
    /\ input = Undefined
    /\ resp = Undefined
    /\ attempted = FALSE
    /\ lastOp = "new"
    /\ calls = [c \in Callers |-> Idle]

\* One processStep call, run to completion, on a history of fewer than `cap`
\* steps
ProcessStepBelow(arg, cap) ==
    /\ Len(steps) < cap
    /\ \E winner \in winners(arg, Session, config) :
       \E r \in {processStep(arg, Session, config, winner)} :
         /\ steps' = r.S.steps
         /\ branches' = r.S.branches
         /\ toolCalls' = r.S.toolCalls
         /\ callCount' = r.S.callCount
         /\ resultCache' = r.S.resultCache
         /\ mockResults' = r.S.mockResults
         /\ input' = Some(arg)
         /\ resp' = Some(r.ret)
         /\ attempted' = r.attempted
    /\ lastOp' = "processStep"
    /\ UNCHANGED <<config, calls>>

ProcessStep(arg) == ProcessStepBelow(arg, MaxSteps)

\* Mutant: reset also drops the calls in flight
Reset_cancelsInFlight ==
    /\ steps' = <<>>
    /\ branches' = <<>>
    /\ toolCalls' = <<>>
    /\ callCount' = managerReset(Session).callCount
    /\ resultCache' = managerReset(Session).resultCache
    /\ mockResults' = managerReset(Session).mockResults
    /\ input' = Undefined
    /\ resp' = Undefined
    /\ attempted' = FALSE
    /\ lastOp' = "reset"
    /\ calls' = [c \in Callers |-> Idle]
    /\ UNCHANGED config

\* reset(): the manager is reset and the StateManager is replaced
Reset ==
    /\ steps' = <<>>
    /\ branches' = <<>>
    /\ toolCalls' = <<>>
    /\ callCount' = managerReset(Session).callCount
    /\ resultCache' = managerReset(Session).resultCache
    /\ mockResults' = managerReset(Session).mockResults
    /\ input' = Undefined
    /\ resp' = Undefined
    /\ attempted' = FALSE
    /\ lastOp' = "reset"
    /\ UNCHANGED <<config, calls>>

\* injectMockResults(mockResults)
InjectMockResults(mocks) ==
    /\ mockResults # Some(mocks)
    /\ mockResults' = Some(mocks)
    /\ lastOp' = "injectMockResults"
    /\ UNCHANGED <<steps, branches, toolCalls, callCount, resultCache, config,
                   input, resp, attempted, calls>>

Init == InitWith(Configs)

Next ==
    \/ \E arg \in Inputs : ProcessStep(arg)
    \/ Reset

Spec == Init /\ [][Next]_vars

InitValidate == InitWith(ConfigsValidate)

NextValidate ==
    \/ \E arg \in ValidateInputs : ProcessStepBelow(arg, MaxValidated)
    \/ Reset

SpecValidate == InitValidate /\ [][NextValidate]_vars

NextTotals ==
    \/ \E arg \in TotalsInputs : ProcessStep(arg)
    \/ Reset

SpecTotals == Init /\ [][NextTotals]_vars

InitTools == InitWith(ConfigsTools)

NextTools ==
    \/ \E arg \in ToolInputs : ProcessStep(arg)
    \/ \E mocks \in MockMaps : InjectMockResults(mocks)
    \/ Reset

SpecTools == InitTools /\ [][NextTools]_vars

NextBranches ==
    \/ \E arg \in BranchInputs : ProcessStep(arg)
    \/ Reset

SpecBranches == Init /\ [][NextBranches]_vars

----------------------------------------------------------------------------
\* Overlapping calls. processStep is an async function: a call that reaches
\* executeToolCall runs to the await, and the rest of it runs later, when the
\* awaited promise has settled. Other calls, and reset, may run in between.

SessionBecomes(S) ==
    /\ steps' = S.steps
    /\ branches' = S.branches
    /\ toolCalls' = S.toolCalls
    /\ callCount' = S.callCount
    /\ resultCache' = S.resultCache
    /\ mockResults' = S.mockResults

\* Whether the call gets to executeToolCall
reachesExecute(arg, S) ==
    LET p == prepare(arg, S) IN
    /\ ~IsDef(p.thrown)
    /\ Get(p.in).phase = Some("tool_call")
    /\ TruthyObj(Get(p.in).toolCall)

\* Whether the call suspends with the budget spent: executeToolCall got past
\* its budget check
suspends(arg, S, cfg) ==
    /\ reachesExecute(arg, S)
    /\ executeBegin(Get(Get(prepare(arg, S).in).toolCall), S, cfg).kind # "throw"

\* Mutant: a result for the tool call recorded last is not recorded again
resume_dedupes(in, S, result) ==
    LET t == recordToolCall(in, S, result)
        again == /\ S.toolCalls # <<>>
                 /\ getCacheKey(S.toolCalls[Len(S.toolCalls)].toolCall)
                      = getCacheKey(Get(in.toolCall))
        c == commit(Get(t.in), IF again THEN S ELSE t.S, t.toolResult)
    IN [S |-> c.S, ret |-> c.ret]

\* processStep after the await: the record, the step, the response
resume(in, S, result) ==
    LET t == recordToolCall(in, S, result)
        c == commit(Get(t.in), t.S, t.toolResult)
    IN [S |-> c.S, ret |-> c.ret]

InFlight == {c \in Callers : calls[c].status \in {"suspended", "racing"}}

\* A call that does not suspend on a pending promise: the session changes
\* as in a call on its own
CallReturns(c, arg) ==
    /\ calls[c].status = "idle"
    /\ Len(steps) + Cardinality(InFlight) < MaxOverlapSteps
    /\ ~suspends(arg, Session, config)
    /\ \E r \in {processStep(arg, Session, config, "none")} :
         /\ SessionBecomes(r.S)
         /\ input' = Some(arg)
         /\ resp' = Some(r.ret)
         /\ attempted' = r.attempted
    /\ lastOp' = "processStep"
    /\ UNCHANGED <<config, calls>>

\* A call up to the await in executeToolCall: the budget is spent, and the
\* call holds a mock or cached result, or has started the race
CallAwaits(c, arg) ==
    /\ calls[c].status = "idle"
    /\ Len(steps) + Cardinality(InFlight) < MaxOverlapSteps
    /\ suspends(arg, Session, config)
    /\ LET in == Get(prepare(arg, Session).in)
           b == executeBegin(Get(in.toolCall), Session, config)
       IN /\ SessionBecomes(b.S)
          /\ calls' = [calls EXCEPT ![c] =
                          [status |-> IF b.kind = "race" THEN "racing" ELSE "suspended",
                           arg |-> Some(arg), in |-> Some(in),
                           held |-> b.result, loser |-> "none"]]
    /\ lastOp' = "await"
    /\ UNCHANGED <<config, input, resp, attempted>>

\* The continuation of a call that holds a mock or cached result
Continue(c) ==
    /\ calls[c].status = "suspended"
    /\ \E r \in {resume(Get(calls[c].in), Session, Get(calls[c].held))} :
         /\ SessionBecomes(r.S)
         /\ resp' = Some(r.ret)
    /\ input' = calls[c].arg
    /\ attempted' = FALSE
    /\ lastOp' = "processStep"
    /\ calls' = [calls EXCEPT ![c] = Idle]
    /\ UNCHANGED config

\* Whether the timer of `winner` can be the first to fire in the race of
\* slot c
Due(c, winner) ==
    /\ calls[c].status = "racing"
    /\ winner \in raceWinners(effectiveTimeout(Get(Get(calls[c].in).toolCall), config))

\* One timer of the race fires first and the call runs to its end; the other
\* timer stays armed
RaceSettles(c, winner) ==
    /\ LET in == Get(calls[c].in)
           toolCall == Get(in.toolCall)
       IN \E e \in {executeSettle(toolCall, Session, config, winner)} :
          \E r \in {resume(in, e.S, e.result)} :
            /\ SessionBecomes(r.S)
            /\ resp' = Some(r.ret)
    /\ input' = calls[c].arg
    /\ attempted' = TRUE
    /\ lastOp' = "processStep"
    /\ calls' = [calls EXCEPT ![c] =
                    [Idle EXCEPT !.status = "stray",
                                 !.in = calls[c].in,
                                 !.loser = IF winner = "executor" THEN "timeout"
                                           ELSE "executor"]]
    /\ UNCHANGED config

ExecutorSettles(c) ==
    /\ Due(c, "executor")
    /\ RaceSettles(c, "executor")

TimeoutElapses(c) ==
    /\ Due(c, "timeout")
    /\ RaceSettles(c, "timeout")

\* Mutant: the executor's result is cached whenever the executor completes
lateSettle_cachesAnyway(toolCall, S, cfg, loser) ==
    IF loser = "executor" THEN executeSettle(toolCall, S, cfg, "executor").S ELSE S

\* The session after the timer that lost the race has fired: the promise of
\* the race has settled already, no continuation waits for the loser, and
\* the executor itself touches nothing of the manager
lateSettle(toolCall, S, cfg, loser) == S

\* The timer that lost the race fires
LoserSettles(c) ==
    /\ calls[c].status = "stray"
    /\ SessionBecomes(lateSettle(Get(Get(calls[c].in).toolCall), Session, config,
                                 calls[c].loser))
    /\ calls' = [calls EXCEPT ![c] = Idle]
    /\ lastOp' = "lateSettle"
    /\ UNCHANGED <<config, input, resp, attempted>>

NextOverlap ==
    \/ \E c \in Callers, arg \in ToolInputs : CallReturns(c, arg)
    \/ \E c \in Callers, arg \in ToolInputs : CallAwaits(c, arg)
    \/ \E c \in Callers : Continue(c)
    \/ \E c \in Callers : ExecutorSettles(c)
    \/ \E c \in Callers : TimeoutElapses(c)
    \/ \E c \in Callers : LoserSettles(c)
    \/ Reset

SpecOverlap == InitTools /\ [][NextOverlap]_vars

\* Steps with and without a tool call, each with nextStepNeeded true and
\* with nextStepNeeded false
FinalInputs ==
    {Some(Step(Some("t"), Some(sn), Some(Num(2)), Some(needed), Undefined, tc)) :
        sn \in {Num(1), Num(2)}, needed \in BOOLEAN, tc \in {Undefined, Some(Fetch)}}

NextFinal ==
    \/ \E arg \in FinalInputs : ProcessStep(arg)
    \/ Reset

SpecFinal == Init /\ [][NextFinal]_vars

\* Overlapping calls on a session that is not reset
NextCalls ==
    \/ \E c \in Callers, arg \in ToolInputs : CallReturns(c, arg)
    \/ \E c \in Callers, arg \in ToolInputs : CallAwaits(c, arg)
    \/ \E c \in Callers : Continue(c)
    \/ \E c \in Callers : ExecutorSettles(c)
    \/ \E c \in Callers : TimeoutElapses(c)
    \/ \E c \in Callers : LoserSettles(c)

SpecCalls == InitTools /\ [][NextCalls]_vars

\* Tool calls with the three kinds of timeout and a step that reflects on the
\* result, under a budget that lets every caller race at once
RacingInputs ==
    {Some(Step(Some("t"), Some(Num(1)), Some(Num(1)), Some(TRUE), Undefined, Some(tc))) :
        tc \in {Fetch, FetchHasty, FetchEven}}
    \cup {Some(Step(Some("t"), Some(Num(2)), Some(Num(2)), Some(FALSE), Some("analysis"), Undefined))}

ConfigsRacing ==
    {cfg \in ConfigsTools : cfg.maxToolCalls = Cardinality(Callers) /\ cfg.enableResultCache}

InitRacing == InitWith(ConfigsRacing)

NextRacing ==
    \/ \E c \in Callers, arg \in RacingInputs : CallReturns(c, arg)
    \/ \E c \in Callers, arg \in RacingInputs : CallAwaits(c, arg)
    \/ \E c \in Callers : Continue(c)
    \/ \E c \in Callers : ExecutorSettles(c)
    \/ \E c \in Callers : TimeoutElapses(c)
    \/ \E c \in Callers : LoserSettles(c)

\* The call in flight in slot c takes its next step
Proceeds(c) == Continue(c) \/ ExecutorSettles(c) \/ TimeoutElapses(c)

\* The event loop runs every continuation that is ready and fires every
\* timer that is due
Scheduling == \A c \in Callers : WF_vars(Proceeds(c))

SpecRacing == InitRacing /\ [][NextRacing]_vars /\ Scheduling

----------------------------------------------------------------------------
\* Vocabulary of the properties. `input` is <<>> before the first call and
\* after a reset, and <<arg>> after a call with argument arg; `resp` likewise.

Failed(r) == IsDef(r) /\ ~Get(r).threw /\ Get(r).isError = Some(TRUE)

Succeeded(r) == IsDef(r) /\ ~Get(r).threw /\ Get(r).isError = Undefined

ErrorOf(r) == Get(r).payload.error

Front(seq) == SubSeq(seq, 1, Len(seq) - 1)

Last(seq) == seq[Len(seq)]

\* The validation rules as the specification words them
RuleStepNumber(in) ==
    IsDef(in.stepNumber) /\ IsInteger(Get(in.stepNumber)) /\ Get(in.stepNumber) >= One

RuleTotalSteps(in) ==
    IsDef(in.totalSteps) /\ IsInteger(Get(in.totalSteps)) /\ Get(in.totalSteps) >= One

RuleNextStepNeeded(in) == IsDef(in.nextStepNeeded)

RulePhase(in) == IsDef(in.phase) => Get(in.phase) \in Phases

WellFormed(arg) ==
    /\ IsDef(arg)
    /\ RuleStepNumber(Get(arg))
    /\ RuleTotalSteps(Get(arg))
    /\ RuleNextStepNeeded(Get(arg))
    /\ RulePhase(Get(arg))

\* A well-formed step that asks for a tool invocation
InvokingStep(arg) ==
    /\ WellFormed(arg)
    /\ IsDef(Get(arg).toolCall)
    /\ Get(arg).phase \in {Undefined, Some("tool_call")}

RejectionMessages ==
    {MsgStepNumber, MsgTotalSteps, MsgNextStepNeeded, MsgPhase, MsgToolCallRequired}

----------------------------------------------------------------------------
\* C1: once maxToolCalls invocations have been issued since construction or
\* the last reset, canExecuteToolCall() is false, executeToolCall rejects
\* with "Tool call limit reached", and every further step that asks for a
\* tool invocation returns an error payload of type ToolCallLimitError
\* without the tool being started.
C1_BudgetEnforced ==
    [][callCount >= config.maxToolCalls =>
          /\ ~canExecuteToolCall(Session, config)
          /\ executeBegin(Fetch, Session, config).kind = "throw"
          /\ executeBegin(Fetch, Session, config).msg = MsgLimit
          /\ (IsDef(input') /\ InvokingStep(Get(input')) =>
                /\ Failed(resp')
                /\ ErrorOf(resp').type = "ToolCallLimitError"
                /\ ~attempted'
                /\ callCount' = callCount)]_vars

C1_Witness ==
    /\ callCount = config.maxToolCalls
    /\ Len(toolCalls) = config.maxToolCalls
    /\ IsDef(input) /\ InvokingStep(Get(input))
    /\ Failed(resp) /\ ErrorOf(resp).type = "ToolCallLimitError"

\* C2: a step rejected by validation, or because its phase is tool_call and
\* it has no toolCall, leaves the step sequence, the branch index, the
\* tool-call log, the call count and the cache as they were.
C2_RejectedStepChangesNothing ==
    [][Failed(resp') /\ ErrorOf(resp').message \in RejectionMessages =>
          UNCHANGED session]_vars

C2_Witness ==
    /\ Failed(resp)
    /\ ErrorOf(resp).message = MsgToolCallRequired
    /\ Len(steps) >= 1
    /\ callCount >= 1

\* C3: a tool_call step rejected because the budget is exhausted leaves the
\* step sequence, the branches, the tool-call log, the call count and the
\* cache as they were.
C3_LimitRejectionChangesNothing ==
    [][Failed(resp') /\ ErrorOf(resp').message = MsgLimit => UNCHANGED session]_vars

C3_Witness ==
    /\ Failed(resp)
    /\ ErrorOf(resp).message = MsgLimit
    /\ Len(steps) >= config.maxToolCalls
    /\ resultCache # EmptyMap

\* The fields of a success payload
SuccessFields ==
    {"stepNumber", "totalSteps", "nextStepNeeded", "branches",
     "stepHistoryLength", "phase", "toolResult"}

\* C4: processStep never lets an exception escape: every call returns either
\* a success payload with no isError flag or the error payload
\* {error: {type, message, recoveryStrategy}, status: "failed"} with isError.
C4_NoExceptionEscapes ==
    IsDef(input) =>
        /\ IsDef(resp)
        /\ ~Get(resp).threw
        /\ \/ /\ Get(resp).isError = Undefined
              /\ DOMAIN Get(resp).payload = SuccessFields
           \/ /\ Get(resp).isError = Some(TRUE)
              /\ DOMAIN Get(resp).payload = {"error", "status"}
              /\ Get(resp).payload.status = "failed"
              /\ DOMAIN ErrorOf(resp) = {"type", "message", "recoveryStrategy"}

C4_Witness ==
    /\ IsDef(input)
    /\ Get(input) = Undefined
    /\ Failed(resp)
    /\ ErrorOf(resp).message = MsgNoInput

\* The messages of the rules a step violates
ViolatedMessages(in) ==
    (IF RuleStepNumber(in) THEN {} ELSE {MsgStepNumber})
    \cup (IF RuleTotalSteps(in) THEN {} ELSE {MsgTotalSteps})
    \cup (IF RuleNextStepNeeded(in) THEN {} ELSE {MsgNextStepNeeded})
    \cup (IF RulePhase(in) THEN {} ELSE {MsgPhase})

\* C5: every step that violates a validation rule is rejected with an error
\* payload of type ValidationError whose message is that of a violated rule.
C5_ViolationsAreValidationErrors ==
    IsDef(input) /\ IsDef(Get(input)) /\ ViolatedMessages(Get(Get(input))) # {} =>
        /\ Failed(resp)
        /\ ErrorOf(resp).type = "ValidationError"
        /\ ErrorOf(resp).message \in ViolatedMessages(Get(Get(input)))

\* The message of the first rule a step violates
FirstViolatedMessage(in) ==
    IF ~RuleStepNumber(in) THEN MsgStepNumber
    ELSE IF ~RuleTotalSteps(in) THEN MsgTotalSteps
    ELSE IF ~RuleNextStepNeeded(in) THEN MsgNextStepNeeded
    ELSE MsgPhase

\* C6: when a step violates two or more validation rules, the error reported
\* is that of the first violated rule in the order stepNumber, totalSteps,
\* nextStepNeeded, phase.
C6_FirstViolationWins ==
    (/\ IsDef(input) /\ IsDef(Get(input))
     /\ Cardinality(ViolatedMessages(Get(Get(input)))) >= 2)
    => /\ Failed(resp)
       /\ ErrorOf(resp).message = FirstViolatedMessage(Get(Get(input)))

\* Phase resolution as the specification words it
FirstNumbered(stepSeq, n) ==
    LET at == {i \in DOMAIN stepSeq :
                  /\ Get(stepSeq[i].stepNumber) = n
                  /\ \A j \in 1..(i - 1) : Get(stepSeq[j].stepNumber) # n}
    IN {stepSeq[i] : i \in at}

ExpectedPhase(in, stored) ==
    IF IsDef(in.phase) THEN Get(in.phase)
    ELSE IF IsDef(in.toolCall) THEN "tool_call"
    ELSE IF \E s \in FirstNumbered(stored, Get(in.stepNumber) - One) :
               s.phase = Some("tool_call")
    THEN "analysis"
    ELSE "thinking"

C8_AnalysisFollowsToolCall ==
    [][(/\ Succeeded(resp) /\ Get(resp).payload.phase = "tool_call"
        /\ IsDef(input') /\ WellFormed(Get(input'))
        /\ Get(Get(input')).phase = Undefined
        /\ Get(Get(input')).toolCall = Undefined)
       => Succeeded(resp') /\ Get(resp').payload.phase = "analysis"]_vars

Greatest(S) == CHOOSE x \in S : \A y \in S : y <= x

\* C9, as claimed: the totalSteps stored and returned for an accepted step is
\* the greatest of its submitted totalSteps, its stepNumber and the
\* totalSteps stored for the step accepted before it, and so never decreases.
C9_TotalStepsNeverDecreases ==
    Succeeded(resp) =>
        LET in == Get(Get(input))
            before == IF Len(steps) >= 2
                      THEN {Get(steps[Len(steps) - 1].totalSteps)} ELSE {}
            expected == Greatest({Get(in.totalSteps), Get(in.stepNumber)} \cup before)
        IN /\ Get(Last(steps).totalSteps) = expected
           /\ Get(resp).payload.totalSteps = expected

\* C9, as amended: the totalSteps stored and returned for an accepted step is
\* the greater of its submitted totalSteps and its stepNumber, whatever was
\* stored before.
C9_TotalStepsIsStepMax ==
    Succeeded(resp) =>
        LET in == Get(Get(input))
            expected == Greatest({Get(in.totalSteps), Get(in.stepNumber)})
        IN /\ Get(Last(steps).totalSteps) = expected
           /\ Get(resp).payload.totalSteps = expected

C9_Witness ==
    /\ Succeeded(resp)
    /\ Len(steps) >= 2
    /\ Get(Last(steps).totalSteps) < Get(steps[Len(steps) - 1].totalSteps)

\* C10: for every accepted step the totalSteps of the response and of the
\* stored step is at least the stepNumber: it is the stepNumber when that
\* exceeds the submitted totalSteps and the submitted totalSteps otherwise.
C10_TotalStepsCoversStepNumber ==
    Succeeded(resp) =>
        LET in == Get(Get(input))
            out == Get(resp).payload
        IN /\ out.totalSteps >= out.stepNumber
           /\ out.stepNumber = Get(in.stepNumber)
           /\ Last(steps).totalSteps = Some(out.totalSteps)
           /\ Last(steps).stepNumber = in.stepNumber
           /\ (Get(in.stepNumber) > Get(in.totalSteps)
                 => out.totalSteps = Get(in.stepNumber))
           /\ (Get(in.stepNumber) <= Get(in.totalSteps)
                 => out.totalSteps = Get(in.totalSteps))

C10_Witness ==
    /\ Succeeded(resp)
    /\ Get(Get(Get(input)).stepNumber) = Num(3)
    /\ Get(Get(Get(input)).totalSteps) = Num(1)
    /\ Get(resp).payload.totalSteps = Num(3)
    /\ Last(steps).totalSteps = Some(Num(3))

----------------------------------------------------------------------------
\* Vocabulary of the tool-invocation properties

\* Two tool calls with the same toolName and parameters, whatever their metadata
SameCall(a, b) == a.toolName = b.toolName /\ a.parameters = b.parameters

\* The tool call of the step submitted last
CallOf(arg) == Get(Get(arg).toolCall)

\* The budget check passes in the current state
Admitted == callCount < config.maxToolCalls

\* The injected mock results hold an entry for the key of the tool call
HasMock(toolCall) ==
    IsDef(mockResults) /\ getCacheKey(toolCall) \in DOMAIN Get(mockResults)

\* The step is a processStep call that invokes a tool
Invokes(op, arg) == op = "processStep" /\ InvokingStep(arg)

\* C11: with caching enabled, after a successful invocation, a second
\* invocation with the same toolName and parameters (whatever its metadata)
\* does not execute the tool again and returns a result identical to the one
\* the first invocation returned, executionTime and timestamp included.
C11_CacheHitReturnsFirstResult ==
    [][(/\ config.enableResultCache
        /\ attempted /\ Succeeded(resp) /\ Last(toolCalls).result.success
        /\ Invokes(lastOp', Get(input'))
        /\ SameCall(CallOf(Get(input')), Last(toolCalls).toolCall)
        /\ Admitted
        /\ ~HasMock(CallOf(Get(input'))))
       => /\ ~attempted'
          /\ Len(toolCalls') = Len(toolCalls) + 1
          /\ Last(toolCalls').result = Last(toolCalls).result]_vars

\* C12: with caching disabled, every invocation that passes the budget check
\* and has no matching mock executes the tool, repeated invocations with the
\* same toolName and parameters included, and the cache is empty in every
\* reachable state.
C12_NoCacheAlwaysExecutes ==
    [][~config.enableResultCache =>
          /\ resultCache = EmptyMap
          /\ resultCache' = EmptyMap
          /\ (Invokes(lastOp', Get(input')) /\ Admitted /\ ~HasMock(CallOf(Get(input')))
                => attempted' /\ Len(toolCalls') = Len(toolCalls) + 1)]_vars

C12_Witness ==
    /\ ~config.enableResultCache
    /\ attempted
    /\ Len(toolCalls) >= 2
    /\ SameCall(toolCalls[1].toolCall, toolCalls[2].toolCall)
    /\ toolCalls[1].result.success /\ toolCalls[1].result.timestamp = "iso"
    /\ toolCalls[2].result.success /\ toolCalls[2].result.timestamp = "iso"
    /\ resultCache = EmptyMap

\* The records of the log for the same toolName and parameters
RecordsOf(toolCall) == {i \in DOMAIN toolCalls : SameCall(toolCalls[i].toolCall, toolCall)}

\* The latest invocation with the same toolName and parameters executed the
\* tool and failed (it was not served by an injected fixture)
LatestFailed(toolCall) ==
    /\ RecordsOf(toolCall) # {}
    /\ LET r == toolCalls[Greatest(RecordsOf(toolCall))].result
       IN ~r.success /\ r \notin Fixtures

\* C13: failures are never cached: every cache entry is a result with
\* success = true, and after an invocation that failed or timed out the next
\* invocation with the same toolName and parameters executes the tool again.
C13_FailuresNeverCached ==
    [][/\ \A k \in DOMAIN resultCache : resultCache[k].success
       /\ \A k \in DOMAIN resultCache' : resultCache'[k].success
       /\ (/\ Invokes(lastOp', Get(input'))
           /\ LatestFailed(CallOf(Get(input')))
           /\ Admitted
           /\ ~HasMock(CallOf(Get(input')))
           => attempted')]_vars

C13_Witness ==
    /\ config.enableResultCache
    /\ attempted
    /\ Len(toolCalls) = 2
    /\ SameCall(toolCalls[1].toolCall, toolCalls[2].toolCall)
    /\ ~toolCalls[1].result.success
    /\ Get(toolCalls[1].result.error).type = "TimeoutError"
    /\ toolCalls[2].result.success
    /\ toolCalls[2].result.executionTime = SimDelay
    /\ DOMAIN resultCache = {getCacheKey(toolCalls[2].toolCall)}

\* C14: every invocation that passes the budget check consumes exactly one
\* budget slot whatever its outcome: a failure, a timeout, a cache hit and a
\* mock result count like a fresh successful execution.
C14_EveryAdmittedInvocationCounts ==
    [][Invokes(lastOp', Get(input')) /\ Admitted =>
          /\ callCount' = callCount + 1
          /\ Len(toolCalls') = Len(toolCalls) + 1]_vars

C14_Witness ==
    /\ callCount = 2
    /\ Len(toolCalls) = 2
    /\ ~toolCalls[1].result.success
    /\ Get(toolCalls[1].result.error).type = "TimeoutError"
    /\ toolCalls[2].result \in Fixtures
    /\ ~attempted

\* C15: a tool_call step whose tool execution fails or times out is still an
\* accepted step: the envelope is not an error and its toolResult.success is
\* false, the step is appended with the failure result attached, a record is
\* added, and the result's error.type is TimeoutError when the timeout won
\* and ToolExecutionError otherwise. Only budget exhaustion turns the step
\* into an error payload.
C15_FailedExecutionIsAccepted ==
    [][Invokes(lastOp', Get(input')) =>
          /\ (Failed(resp') <=> ~Admitted)
          /\ (Failed(resp') => ErrorOf(resp').type = "ToolCallLimitError")
          /\ (Admitted /\ ~Last(toolCalls').result.success =>
                LET r == Last(toolCalls').result IN
                /\ Succeeded(resp')
                /\ Get(resp').payload.toolResult =
                       Some([success |-> FALSE, executionTime |-> r.executionTime])
                /\ Len(steps') = Len(steps) + 1
                /\ Last(steps').toolResult = Some(r)
                /\ toolCalls' = Append(toolCalls,
                                       [stepNumber |-> Get(Get(Get(input')).stepNumber),
                                        toolCall |-> CallOf(Get(input')),
                                        result |-> r])
                /\ IsDef(r.error)
                /\ Get(r.error).type \in {"TimeoutError", "ToolExecutionError"}
                /\ (attempted' => /\ Get(r.error).type = "TimeoutError"
                                  /\ includes(Get(r.error).message, <<"timeout">>)))]_vars

C15_Witness ==
    /\ Succeeded(resp)
    /\ attempted
    /\ Get(resp).payload.toolResult = Some([success |-> FALSE, executionTime |-> SimDelay])
    /\ Get(Get(Last(steps).toolResult).error).type = "TimeoutError"
    /\ Last(toolCalls).result = Get(Last(steps).toolResult)
    /\ callCount < config.maxToolCalls

\* C16: when the injected mock results hold an entry for the key of an
\* invocation, the invocation returns that entry unchanged, without executing
\* the tool and without reading or writing the cache: the mock is returned
\* even when the cache holds a result for the same key.
C16_MockTakesPrecedence ==
    [][Invokes(lastOp', Get(input')) /\ Admitted /\ HasMock(CallOf(Get(input'))) =>
          LET mock == Get(mockResults)[getCacheKey(CallOf(Get(input')))] IN
          /\ Succeeded(resp')
          /\ ~attempted'
          /\ Len(toolCalls') = Len(toolCalls) + 1
          /\ Last(toolCalls').result = mock
          /\ Last(steps').toolResult = Some(mock)
          /\ Get(resp').payload.toolResult =
                 Some([success |-> mock.success, executionTime |-> mock.executionTime])
          /\ resultCache' = resultCache
          /\ mockResults' = mockResults]_vars

C16_Witness ==
    /\ Len(toolCalls) = 2
    /\ SameCall(toolCalls[1].toolCall, toolCalls[2].toolCall)
    /\ toolCalls[1].result.success
    /\ toolCalls[1].result.timestamp = "iso"
    /\ getCacheKey(toolCalls[2].toolCall) \in DOMAIN resultCache
    /\ toolCalls[2].result = MockFail
    /\ Last(steps).toolResult = Some(MockFail)
    /\ lastOp = "processStep"

----------------------------------------------------------------------------
\* Vocabulary of the branch properties

\* The branch sequence registered under id, empty when there is none
BranchSeq(br, id) ==
    IF \E i \in DOMAIN br : br[i].id = id
    THEN br[CHOOSE i \in DOMAIN br : br[i].id = id].steps
    ELSE <<>>

BranchIdsOf(br) == {br[i].id : i \in DOMAIN br}

\* The branches list of the response names every registered branch once
ListsEachOnce(list, br) ==
    /\ {list[i] : i \in DOMAIN list} = BranchIdsOf(br)
    /\ \A i, j \in DOMAIN list : list[i] = list[j] => i = j
    /\ \A id \in BranchIdsOf(br) : BranchSeq(br, id) # <<>>

\* What accepting the step `st` does to the history when `registers` tells
\* whether the step belongs to a branch
BranchBookkeeping(registers, st) ==
    /\ steps' = Append(steps, st)
    /\ IF registers
       THEN /\ BranchSeq(branches', Get(st.branchId))
                  = Append(BranchSeq(branches, Get(st.branchId)), st)
            /\ \A id \in BranchIdsOf(branches) \ {Get(st.branchId)} :
                  BranchSeq(branches', id) = BranchSeq(branches, id)
            /\ BranchIdsOf(branches') = BranchIdsOf(branches) \cup {Get(st.branchId)}
       ELSE branches' = branches
    /\ ListsEachOnce(Get(resp').payload.branches, branches')

\* C17, as claimed: an accepted step that carries both branchFromStep and
\* branchId appears in the main sequence and in the branch sequence of that
\* branchId, a step lacking either field appears in no branch sequence, and
\* the branches list of every response names each registered branchId once.
C17_BranchRegistration ==
    [][lastOp' = "processStep" /\ Succeeded(resp') =>
          LET st == Last(steps')
          IN BranchBookkeeping(IsDef(st.branchFromStep) /\ IsDef(st.branchId), st)]_vars

\* C17, as amended: the step is registered when its branchFromStep is a
\* non-zero number and its branchId a non-empty string; a step whose
\* branchFromStep or branchId is absent, 0 or "" appears in no branch
\* sequence.
C17_TruthyBranchRegistration ==
    [][lastOp' = "processStep" /\ Succeeded(resp') =>
          LET st == Last(steps')
          IN BranchBookkeeping(/\ IsDef(st.branchFromStep) /\ Get(st.branchFromStep) # 0
                               /\ IsDef(st.branchId) /\ Get(st.branchId) # "",
                               st)]_vars

C17_Witness ==
    /\ Succeeded(resp)
    /\ Len(steps) = 3
    /\ steps[1].branchId = Some("") /\ steps[1].branchFromStep = Some(Num(1))
    /\ steps[2].branchId = Some("b1") /\ steps[2].branchFromStep = Some(Num(1))
    /\ steps[3].branchId = Some("b1") /\ steps[3].branchFromStep = Some(Num(1))
    /\ branches = <<[id |-> "b1", steps |-> <<steps[2], steps[3]>>]>>
    /\ Get(resp).payload.branches = <<"b1">>

----------------------------------------------------------------------------
\* C18: reset() returns the session to its initial empty state: the step
\* sequence, the branch index and the tool-call log are empty, all history
\* statistics are 0, the call count is 0 (the full budget is available
\* again) and the cache is empty, while maxToolCalls, defaultTimeout and the
\* cache-enable flag keep their values.
C18_ResetRestoresInitialState ==
    [][lastOp' = "reset" =>
          /\ steps' = <<>>
          /\ branches' = <<>>
          /\ toolCalls' = <<>>
          /\ getHistory(Session)'.statistics =
                 [totalSteps |-> 0, totalToolCalls |-> 0, successfulToolCalls |-> 0,
                  failedToolCalls |-> 0, totalExecutionTime |-> 0]
          /\ callCount' = 0
          /\ canExecuteToolCall(Session, config)'
          /\ resultCache' = EmptyMap
          /\ config' = config]_vars

C18_Witness ==
    /\ lastOp = "reset"
    /\ steps = <<>> /\ branches = <<>> /\ toolCalls = <<>>
    /\ callCount = 0 /\ resultCache = EmptyMap
    /\ IsDef(mockResults)
    /\ config.maxToolCalls = MaxBudget
    /\ config.enableResultCache

\* The executionTime of the first n records of the log, added up
RECURSIVE LoggedTime(_)
LoggedTime(n) ==
    IF n = 0 THEN 0 ELSE LoggedTime(n - 1) + toolCalls[n].result.executionTime

\* C19: in every reachable state the statistics of getHistory() agree with
\* the logs: totalSteps is the length of the main sequence, totalToolCalls
\* the length of the tool-call log, successfulToolCalls + failedToolCalls =
\* totalToolCalls, and totalExecutionTime the sum of the executionTime of
\* all records.
C19_StatisticsAgreeWithLogs ==
    LET history == getHistory(Session)
        stats == history.statistics
    IN /\ history.steps = steps
       /\ history.toolCalls = toolCalls
       /\ stats.totalSteps = Len(steps)
       /\ stats.totalToolCalls = Len(toolCalls)
       /\ stats.successfulToolCalls =
              Cardinality({i \in DOMAIN toolCalls : toolCalls[i].result.success})
       /\ stats.failedToolCalls =
              Cardinality({i \in DOMAIN toolCalls : ~toolCalls[i].result.success})
       /\ stats.successfulToolCalls + stats.failedToolCalls = stats.totalToolCalls
       /\ stats.totalExecutionTime = LoggedTime(Len(toolCalls))

C19_Witness ==
    /\ Len(steps) = 3
    /\ Len(toolCalls) = 2
    /\ branches # <<>>
    /\ ~toolCalls[1].result.success
    /\ toolCalls[2].result.success
    /\ getHistory(Session).statistics =
           [totalSteps |-> 3, totalToolCalls |-> 2, successfulToolCalls |-> 1,
            failedToolCalls |-> 1,
            totalExecutionTime |-> toolCalls[1].result.executionTime + SimDelay]

\* C20: a step whose resolved phase is tool_call but that has no toolCall
\* returns an error payload whose message contains "toolCall is required
\* for tool_call phase"; the tool-call manager is not invoked for it, so no
\* budget slot is consumed.
C20_ToolCallPhaseNeedsToolCall ==
    [][(/\ lastOp' = "processStep"
        /\ WellFormed(Get(input'))
        /\ Get(Get(input')).phase = Some("tool_call")
        /\ ~IsDef(Get(Get(input')).toolCall))
       => /\ Failed(resp')
          /\ includes(ErrorOf(resp').message, MsgToolCallRequired)
          /\ ~attempted'
          /\ callCount' = callCount
          /\ resultCache' = resultCache
          /\ toolCalls' = toolCalls]_vars

C20_Witness ==
    /\ lastOp = "processStep"
    /\ Get(Get(input)).phase = Some("tool_call")
    /\ ~IsDef(Get(Get(input)).toolCall)
    /\ Failed(resp)
    /\ ErrorOf(resp).message = MsgToolCallRequired
    /\ callCount = 1
    /\ config.maxToolCalls = 2

----------------------------------------------------------------------------
\* The latest operation was a processStep call with a well-formed step that
\* has no phase
PhaselessStep == lastOp = "processStep" /\ WellFormed(Get(input)) /\ ~IsDef(Get(Get(input)).phase)

Reduced(r) == [success |-> r.success, executionTime |-> r.executionTime]

\* C22: the tool-call log records every invocation that passed the budget
\* check, cache hits and failures included: each accepted tool_call step
\* appends exactly one record carrying that step's stepNumber, its toolCall
\* and the result returned to it; no other call changes the log.
C22_EveryInvocationIsLogged ==
    [][lastOp' = "processStep" =>
          IF Invokes(lastOp', Get(input')) /\ Admitted
          THEN /\ Succeeded(resp')
               /\ Get(resp').payload.phase = "tool_call"
               /\ Len(toolCalls') = Len(toolCalls) + 1
               /\ SubSeq(toolCalls', 1, Len(toolCalls)) = toolCalls
               /\ Last(toolCalls').stepNumber = Get(Get(Get(input')).stepNumber)
               /\ Last(toolCalls').toolCall = CallOf(Get(input'))
               /\ Last(steps').toolResult = Some(Last(toolCalls').result)
               /\ Get(resp').payload.toolResult = Some(Reduced(Last(toolCalls').result))
          ELSE toolCalls' = toolCalls]_vars

C22_Witness ==
    /\ lastOp = "processStep"
    /\ Succeeded(resp)
    /\ ~attempted
    /\ Len(toolCalls) = 2
    /\ SameCall(toolCalls[1].toolCall, toolCalls[2].toolCall)
    /\ toolCalls[1].result.timestamp = "iso"
    /\ toolCalls[2].result.timestamp = ""
    /\ Get(resp).payload.toolResult = Some(Reduced(toolCalls[2].result))
    /\ callCount = 2

\* C23: the toolResult field of a success response is present exactly when
\* a tool result exists for the call: never for a thinking step; always for
\* a tool_call step, as the reduced view of the result of that step's own
\* invocation; for an analysis step if and only if the tool-call log is not
\* empty, as the reduced view of the result of the latest record.
C23_ToolResultPresence ==
    lastOp = "processStep" /\ Succeeded(resp) =>
        LET out == Get(resp).payload IN
        /\ out.phase \in Phases
        /\ (out.phase = "thinking" => out.toolResult = Undefined)
        /\ (out.phase = "tool_call" =>
               /\ toolCalls # <<>>
               /\ Last(toolCalls).stepNumber = out.stepNumber
               /\ Last(toolCalls).toolCall = CallOf(Get(input))
               /\ Last(steps).toolResult = Some(Last(toolCalls).result)
               /\ out.toolResult = Some(Reduced(Last(toolCalls).result)))
        /\ (out.phase = "analysis" =>
               /\ (toolCalls = <<>> => out.toolResult = Undefined)
               /\ (toolCalls # <<>> =>
                      out.toolResult = Some(Reduced(Last(toolCalls).result)))
               /\ Last(steps).toolResult = Undefined)

C23_Witness ==
    /\ lastOp = "processStep"
    /\ Succeeded(resp)
    /\ Get(resp).payload.phase = "analysis"
    /\ Len(steps) = 3
    /\ steps[1].phase = Some("tool_call")
    /\ steps[2].phase = Some("thinking")
    /\ Len(toolCalls) = 1
    /\ Get(resp).payload.toolResult = Some([success |-> TRUE, executionTime |-> SimDelay])

\* C24: stepHistoryLength in a success response is the number of steps
\* accepted since construction or the last reset, the current one included:
\* each accepted step makes the main sequence longer by exactly 1 and each
\* rejected step by 0.
C24_HistoryLengthCountsAccepted ==
    [][lastOp' = "processStep" =>
          /\ (Succeeded(resp') =>
                /\ Len(steps') = Len(steps) + 1
                /\ Get(resp').payload.stepHistoryLength = Len(steps'))
          /\ (Failed(resp') => Len(steps') = Len(steps))]_vars

\* The steps stored on the main sequence and on the branch sequences
StoredSteps ==
    {steps[i] : i \in DOMAIN steps}
    \cup UNION {{branches[b].steps[i] : i \in DOMAIN branches[b].steps} : b \in DOMAIN branches}

\* C25: every step stored through processStep has a concrete phase: each
\* step on the main sequence and on every branch sequence has a phase in
\* {thinking, tool_call, analysis}, the phase reported in its response.
C25_StoredStepsHavePhase ==
    /\ \A st \in StoredSteps : IsDef(st.phase) /\ Get(st.phase) \in Phases
    /\ (lastOp = "processStep" /\ Succeeded(resp) =>
          /\ Get(resp).payload.phase \in Phases
          /\ Last(steps).phase = Some(Get(resp).payload.phase))

C25_Witness ==
    /\ lastOp = "processStep"
    /\ Succeeded(resp)
    /\ Get(Get(input)).phase = Some("")
    /\ Len(steps) = 2
    /\ Get(Get(input)) \notin StoredSteps
    /\ steps[1].phase = Some("analysis")
    /\ steps[2].phase = Some("thinking")
    /\ BranchSeq(branches, "b1") = <<steps[1], steps[2]>>
    /\ Get(resp).payload.phase = "thinking"

\* C26: the step log is append-only and ordered by arrival: an accepted step
\* is added at the end of the main sequence, steps with duplicate or
\* non-contiguous stepNumbers are accepted, and no processStep call, a
\* revision included, removes, reorders or modifies a stored step or its
\* phase.
C26_StepLogAppendOnly ==
    [][lastOp' = "processStep" =>
          /\ Len(steps') \in {Len(steps), Len(steps) + 1}
          /\ SubSeq(steps', 1, Len(steps)) = steps
          /\ (Succeeded(resp') =>
                /\ Len(steps') = Len(steps) + 1
                /\ Last(steps').stepNumber = Get(Get(input')).stepNumber
                /\ Last(steps').thought = Get(Get(input')).thought
                /\ Last(steps').isRevision = Get(Get(input')).isRevision
                /\ Last(steps').revisesStep = Get(Get(input')).revisesStep)
          /\ (/\ RuleNextStepNeeded(Get(Get(input'))) /\ RulePhase(Get(Get(input')))
              /\ IsDef(Get(Get(input')).stepNumber) /\ Get(Get(Get(input')).stepNumber) >= One
              /\ IsDef(Get(Get(input')).totalSteps) /\ Get(Get(Get(input')).totalSteps) >= One
              /\ ~IsDef(Get(Get(input')).toolCall)
              /\ Get(Get(input')).phase # Some("tool_call")
              /\ ~IsDef(Get(Get(input')).branchId)
              => Succeeded(resp'))]_vars

C26_Witness ==
    /\ lastOp = "processStep"
    /\ Succeeded(resp)
    /\ Len(steps) = 3
    /\ steps[1].stepNumber = Some(Num(3))
    /\ steps[2].stepNumber = Some(Num(1)) /\ steps[2].isRevision = Undefined
    /\ steps[2].thought = Some("t")
    /\ steps[3].stepNumber = Some(Num(1)) /\ steps[3].isRevision = Some(TRUE)
    /\ steps[3].revisesStep = Some(Num(1))

----------------------------------------------------------------------------
\* The configuration of the session with logging switched on or off
WithLogging(on) == [config EXCEPT !.disableLogging = ~on]

\* From the current session, the call processStep(arg) returns the same
\* envelope and leaves the same session whether logging is on or off
SameWithAndWithoutLogging(arg) ==
    \A winner \in winners(arg, Session, config) :
        LET quiet == processStep(arg, Session, WithLogging(FALSE), winner)
            loud == processStep(arg, Session, WithLogging(TRUE), winner)
        IN /\ quiet.ret = loud.ret
           /\ quiet.S = loud.S
           /\ getHistory(quiet.S) = getHistory(loud.S)

\* C27: logging never affects returned data: two sessions that differ only
\* in disableLogging and receive the same inputs return the same processStep
\* payloads and the same getHistory() contents. Stated step by step: from
\* every reachable session, every input gives the same envelope and the same
\* next session with logging on and off.
C27_LoggingNeverAffectsResults ==
    \A arg \in ValidateInputs : SameWithAndWithoutLogging(arg)

\* The tool call of the call in flight in slot c, and the timeout it races
PendingToolCall(c) == Get(Get(calls[c].in).toolCall)

PendingTimeout(c) == effectiveTimeout(PendingToolCall(c), config)

Pending(c) == calls[c].status \in {"suspended", "racing"}

TimeoutFailure(toolCall, timeout) ==
    [toolName |-> toolCall.toolName,
     success |-> FALSE,
     result |-> Undefined,
     error |-> Some([type |-> "TimeoutError",
                     message |-> MsgTimeout(timeout),
                     recoveryStrategy |-> "Use simpler tool or increase timeout"]),
     executionTime |-> timeout,
     timestamp |-> "iso"]

ExecutorResult(toolCall) ==
    [simulateToolExecution(toolCall) EXCEPT !.executionTime = SimDelay, !.timestamp = "iso"]

\* The race of slot c ends in this step
RaceEnds(c) == calls[c].status = "racing" /\ calls'[c].status # "racing"

\* C28: every invocation that passed the budget check returns, and so does
\* the processStep call that made it. A race ends with the executor's result
\* when the executor's timer is due first, and with a TimeoutError failure
\* when the timeout is due first; when both are due together it ends with
\* one of the two. The call then returns a response, not an error.
C28_InvocationsTerminate ==
    /\ \A c \in Callers : Pending(c) ~> ~Pending(c)
    /\ [][\A c \in Callers : RaceEnds(c) =>
            LET toolCall == PendingToolCall(c)
                timeout == PendingTimeout(c)
                result == Last(toolCalls').result
            IN /\ Succeeded(resp')
               /\ input' = calls[c].arg
               /\ result \in {ExecutorResult(toolCall), TimeoutFailure(toolCall, timeout)}
               /\ timeout > SimDelay => result = ExecutorResult(toolCall)
               /\ timeout < SimDelay => result = TimeoutFailure(toolCall, timeout)
               /\ calls'[c].loser = "timeout" <=> result = ExecutorResult(toolCall)
               /\ calls'[c].loser = "executor" <=> result = TimeoutFailure(toolCall, timeout)
               /\ Get(resp').payload.toolResult =
                      Some([success |-> result.success,
                            executionTime |-> result.executionTime])]_vars

\* Two calls were in flight together; one has ended on its timeout, before
\* the executor completed, and the other is still racing
C28_Witness ==
    /\ calls["c1"].status = "stray"
    /\ calls["c1"].loser = "executor"
    /\ calls["c2"].status = "racing"
    /\ toolCalls # <<>>
    /\ Last(toolCalls).result = TimeoutFailure(FetchHasty, SimDelay - 1)
    /\ Succeeded(resp)

IsPrefix(s, t) == Len(s) <= Len(t) /\ SubSeq(t, 1, Len(s)) = s

\* The executor of slot c completes in this step, after its timeout has won
ExecutorCompletesLate(c) ==
    /\ calls[c].status = "stray"
    /\ calls[c].loser = "executor"
    /\ calls'[c].status # "stray"

\* C29: when the timeout wins the race of an invocation, the invocation's
\* record is the TimeoutError failure and the cache is not written; when the
\* executor of that invocation completes later, the session and the latest
\* response stay as they are; and no step but reset ever changes or removes
\* a record or a stored step.
C29_LateCompletionIsDiscarded ==
    [][/\ \A c \in Callers :
            /\ RaceEnds(c) /\ calls'[c].loser = "executor" =>
                  /\ Last(toolCalls').result =
                         TimeoutFailure(PendingToolCall(c), PendingTimeout(c))
                  /\ Last(steps').toolResult = Some(Last(toolCalls').result)
                  /\ resultCache' = resultCache
            /\ ExecutorCompletesLate(c) =>
                  /\ UNCHANGED session
                  /\ UNCHANGED <<input, resp>>
       /\ lastOp' # "reset" =>
            /\ IsPrefix(toolCalls, toolCalls')
            /\ IsPrefix(steps, steps')]_vars

\* The executor of a call has completed after the call ended on its timeout:
\* every race so far was lost by the executor, the single record is the
\* TimeoutError failure and the cache is empty
C29_Witness ==
    /\ lastOp = "lateSettle"
    /\ \A c \in Callers : calls[c].status = "idle"
    /\ callCount = 1
    /\ Len(toolCalls) = 1
    /\ toolCalls[1].result = TimeoutFailure(FetchHasty, SimDelay - 1)
    /\ Len(steps) = 1
    /\ resultCache = EmptyMap

\* What getStatistics() reports about the cache
StatisticsMatchCache ==
    LET stats == getStatistics(Session) IN
    /\ stats.successfulCalls = Cardinality(DOMAIN resultCache)
    /\ stats.failedCalls = 0
    /\ stats.totalExecutionTime = cachedTime(resultCache, DOMAIN resultCache)

\* totalCalls goes up by one with every invocation that passes the budget
\* check, back to 0 with reset, and is otherwise left alone
TotalCallsCountsAdmitted ==
    LET before == getStatistics(Session).totalCalls
        after == getStatistics(Session)'.totalCalls
    IN IF lastOp' = "reset" THEN after = 0
       ELSE IF lastOp' = "await" THEN Admitted /\ after = before + 1
       ELSE IF lastOp' = "processStep" /\ calls' = calls
                 /\ InvokingStep(Get(input')) /\ Admitted
       THEN after = before + 1
       ELSE after = before

\* C30: getStatistics() reports as totalCalls the number of invocations that
\* passed the budget check since construction or the last reset, and takes
\* the other three figures from the cache entries: successfulCalls is the
\* number of entries, failedCalls is 0, and successfulCalls + failedCalls
\* never exceeds totalCalls.
C30_StatisticsAreConsistent ==
    /\ [](getStatistics(Session).totalCalls = 0 \/ lastOp # "new")
    /\ [][TotalCallsCountsAdmitted]_vars
    /\ []StatisticsMatchCache
    /\ [](getStatistics(Session).successfulCalls + getStatistics(Session).failedCalls
            <= getStatistics(Session).totalCalls)

\* C31: whenever processStep returns an envelope flagged isError, the
\* response of the registered tool handler is flagged isError as well and
\* carries the same error payload. Stated for the steps the input schema of
\* the tool lets through.
C31_FailedStepReachesClientFlagged ==
    Failed(resp) /\ WellFormed(Get(input)) =>
        \A response \in {registerToolHandler(Get(resp)), registerToolHandler_v1(Get(resp))} :
            /\ response.isError = Some(TRUE)
            /\ response.content = Get(resp).payload

\* The invocations that have passed the budget check: those that have
\* returned have a record each, the others are in flight
AdmittedSoFar == Len(toolCalls) + Cardinality(InFlight)

\* An update of the call count has been lost
LostUpdate == callCount < AdmittedSoFar

Duplicate(c) ==
    /\ calls[c].status = "racing"
    /\ \E d \in Callers \ {c} :
         /\ calls[d].status = "racing"
         /\ getCacheKey(PendingToolCall(d)) = getCacheKey(PendingToolCall(c))

\* C33: with caching enabled, two overlapping tool_call steps with the same
\* toolName and parameters can both miss the cache and both execute the tool.
\* Each has consumed a budget slot of its own; each, when its executor
\* settles, writes the cache entry of the shared key and appends a record of
\* its own with the result of its own execution.
C33_DuplicateCachePopulation ==
    /\ [](\A c \in Callers : Duplicate(c) =>
            /\ callCount >= Len(toolCalls) + Cardinality(Callers)
            /\ config.enableResultCache =>
                  mapGet(resultCache, getCacheKey(PendingToolCall(c))) = Undefined)
    /\ [][\A c \in Callers :
            RaceEnds(c) /\ calls'[c].loser = "timeout" /\ config.enableResultCache =>
                LET toolCall == PendingToolCall(c) IN
                /\ resultCache' = mapSet(resultCache, getCacheKey(toolCall),
                                         simulateToolExecution(toolCall))
                /\ toolCalls' = Append(toolCalls,
                                       [stepNumber |-> Get(Get(calls[c].in).stepNumber),
                                        toolCall |-> toolCall,
                                        result |-> ExecutorResult(toolCall)])
                /\ Len(steps') = Len(steps) + 1
                /\ callCount' = callCount]_vars

\* Both callers asked for Fetch, both missed the cache, both executed: two
\* slots of the budget are spent, there are two records and two steps, and
\* the cache holds the one entry both wrote
C33_Witness ==
    /\ config.enableResultCache
    /\ \A c \in Callers : calls[c].status = "stray" /\ calls[c].loser = "timeout"
    /\ callCount = 2
    /\ Len(toolCalls) = 2
    /\ \A i \in 1..2 : /\ toolCalls[i].toolCall = Fetch
                        /\ toolCalls[i].result = ExecutorResult(Fetch)
    /\ Len(steps) = 2
    /\ DOMAIN resultCache = {getCacheKey(Fetch)}

\* C34: when each processStep or reset completes before the next starts, the
\* length of the tool-call log equals the manager's call count in every
\* reachable state, and both are at most maxToolCalls.
C34_LogAgreesWithCounter ==
    /\ Len(toolCalls) = callCount
    /\ callCount <= config.maxToolCalls
    /\ Len(getHistory(Session).toolCalls) = getStatistics(Session).totalCalls

\* The budget is used up, by an executed call and a cache hit, and a further
\* invocation has been turned away
C34_Witness ==
    /\ callCount = config.maxToolCalls
    /\ Len(toolCalls) = 2
    /\ toolCalls[1].result.timestamp = "iso"
    /\ toolCalls[2].result.timestamp = ""
    /\ Failed(resp)
    /\ ErrorOf(resp).message = MsgLimit

\* The stored steps of phase tool_call, in the order they were stored
ToolCallSteps == SelectSeq(steps, LAMBDA step : step.phase = Some("tool_call"))

\* C35: steps of phase tool_call and tool-call records correspond one to
\* one: there are as many such steps as records, the i-th such step carries
\* the tool call and the result of the i-th record, and a record and its step
\* are appended by the same processStep call.
C35_ToolStepsMatchRecords ==
    /\ [](/\ Len(ToolCallSteps) = Len(toolCalls)
          /\ \A i \in DOMAIN toolCalls :
                /\ ToolCallSteps[i].toolResult = Some(toolCalls[i].result)
                /\ ToolCallSteps[i].toolCall = Some(toolCalls[i].toolCall)
                /\ ToolCallSteps[i].stepNumber = Some(toolCalls[i].stepNumber))
    /\ [][toolCalls' # toolCalls /\ lastOp' # "reset" =>
            /\ lastOp' = "processStep"
            /\ Len(toolCalls') = Len(toolCalls) + 1
            /\ Front(toolCalls') = toolCalls
            /\ Len(steps') = Len(steps) + 1
            /\ Front(steps') = steps
            /\ Last(steps').phase = Some("tool_call")
            /\ Last(steps').toolResult = Some(Last(toolCalls').result)]_vars

\* A thinking step, a tool_call step and an analysis step are stored; the one
\* record belongs to the second step
C35_Witness ==
    /\ Len(steps) = 3
    /\ steps[1].phase = Some("thinking")
    /\ steps[2].phase = Some("tool_call")
    /\ steps[3].phase = Some("analysis")
    /\ Len(toolCalls) = 1
    /\ steps[2].toolResult = Some(toolCalls[1].result)
    /\ steps[1].toolResult = Undefined

\* The call that has just returned was given a well-formed step that names
\* phase thinking or analysis and carries a toolCall
ExplicitNonToolStep ==
    /\ lastOp' = "processStep"
    /\ WellFormed(Get(input'))
    /\ Get(Get(input')).phase \in {Some("thinking"), Some("analysis")}
    /\ IsDef(Get(Get(input')).toolCall)

StillNeeded(seq) == [i \in DOMAIN seq |-> [seq[i] EXCEPT !.nextStepNeeded = Some(TRUE)]]

AsIfNeeded(S) ==
    [S EXCEPT !.steps = StillNeeded(@),
              !.branches = [b \in DOMAIN @ |-> [@[b] EXCEPT !.steps = StillNeeded(@)]]]

\* A step with nextStepNeeded false is stored
FinalStepStored == \E i \in DOMAIN steps : steps[i].nextStepNeeded = Some(FALSE)

\* C37: nextStepNeeded = false does not close the session. Whatever the
\* flags of the stored steps, the next call returns what it would return,
\* and stores what it would store, had every stored step been submitted
\* with the flag true; and a step submitted after a step with the flag
\* false is accepted like any other.
C37_FinalStepDoesNotClose ==
    /\ [](\A arg \in FinalInputs : \A winner \in winners(arg, Session, config) :
            LET actual == processStep(arg, Session, config, winner)
                other == processStep(arg, AsIfNeeded(Session), config, winner)
            IN /\ winners(arg, AsIfNeeded(Session), config) = winners(arg, Session, config)
               /\ actual.ret = other.ret
               /\ actual.attempted = other.attempted
               /\ AsIfNeeded(actual.S) = AsIfNeeded(other.S))
    /\ [][FinalStepStored /\ lastOp' = "processStep" =>
            /\ Len(steps') = Len(steps) + 1 \/ ErrorOf(resp').message = MsgLimit
            /\ InvokingStep(Get(input')) /\ callCount < config.maxToolCalls =>
                  /\ Succeeded(resp')
                  /\ Len(steps') = Len(steps) + 1
                  /\ Len(toolCalls') = Len(toolCalls) + 1]_vars

\* A step with nextStepNeeded false was stored first; the tool_call step and
\* the analysis step submitted after it have been processed and stored
C37_Witness ==
    /\ Len(steps) = 3
    /\ steps[1].nextStepNeeded = Some(FALSE)
    /\ steps[2].phase = Some("tool_call")
    /\ steps[3].phase = Some("analysis")
    /\ steps[3].nextStepNeeded = Some(TRUE)
    /\ Len(toolCalls) = 1
    /\ Succeeded(resp)
    /\ Get(resp).payload.stepHistoryLength = 3

\* No call has been counted or recorded since the last reset, or since
\* construction. A call that is racing in such a state began before a reset.
NothingSinceReset ==
    /\ callCount = 0
    /\ steps = <<>>
    /\ toolCalls = <<>>
    /\ resultCache = EmptyMap

\* C38: reset() does not cancel a tool_call step that is awaiting its tool
\* execution. The call stays in flight across the reset; when its executor
\* settles afterwards, its record and its step are appended to the fresh
\* history and, with caching enabled, its result is written into the cleared
\* cache, while the call count stays at 0: the tool-call log is then longer
\* than the call count.
C38_ResetDoesNotCancel ==
    [][/\ lastOp' = "reset" => calls' = calls /\ NothingSinceReset'
       /\ \A c \in Callers :
            NothingSinceReset /\ RaceEnds(c) /\ calls'[c].loser = "timeout" =>
                LET toolCall == PendingToolCall(c) IN
                /\ toolCalls' = <<[stepNumber |-> Get(Get(calls[c].in).stepNumber),
                                   toolCall |-> toolCall,
                                   result |-> ExecutorResult(toolCall)]>>
                /\ steps' = <<[Get(calls[c].in) EXCEPT
                                  !.toolResult = Some(ExecutorResult(toolCall))]>>
                /\ resultCache' = IF config.enableResultCache
                                  THEN mapSet(EmptyMap, getCacheKey(toolCall),
                                              simulateToolExecution(toolCall))
                                  ELSE EmptyMap
                /\ callCount' = 0
                /\ Len(toolCalls') > callCount'
                /\ Succeeded(resp')
                /\ Get(resp').payload.stepHistoryLength = 1]_vars

\* A call that was racing when reset ran has completed: with nothing counted
\* since the reset, the history holds its step and its record and the cache
\* holds its result
C38_Witness ==
    /\ lastOp = "processStep"
    /\ callCount = 0
    /\ Len(toolCalls) = 1
    /\ toolCalls[1].result = ExecutorResult(Fetch)
    /\ Len(steps) = 1
    /\ steps[1].toolResult = Some(ExecutorResult(Fetch))
    /\ DOMAIN resultCache = {getCacheKey(Fetch)}
    /\ \E c \in Callers : calls[c].status = "stray" /\ calls[c].loser = "timeout"

\* C39: the injected mock results are not part of what reset() discards.
\* reset() leaves them as they are, and the invocation that follows a reset,
\* when its key matches an injected mock, returns that mock without
\* executing the tool.
C39_MocksSurviveReset ==
    [][/\ lastOp' = "reset" =>
            /\ mockResults' = mockResults
            /\ callCount' = 0
            /\ resultCache' = EmptyMap
       /\ lastOp = "reset" /\ Invokes(lastOp', Get(input'))
            /\ HasMock(CallOf(Get(input'))) =>
            LET mock == Get(mockResults)[getCacheKey(CallOf(Get(input')))] IN
            /\ Succeeded(resp')
            /\ ~attempted'
            /\ toolCalls' = <<[stepNumber |-> Get(Get(Get(input')).stepNumber),
                               toolCall |-> CallOf(Get(input')),
                               result |-> mock]>>
            /\ Get(resp').payload.toolResult =
                   Some([success |-> mock.success, executionTime |-> mock.executionTime])
            /\ callCount' = 1
            /\ resultCache' = EmptyMap]_vars

\* reset() has just run on a session with an injected mock: the history,
\* the counter and the cache are cleared, the mock is still there
C39_Witness ==
    /\ lastOp = "reset"
    /\ HasMock(Fetch)
    /\ Get(mockResults)[getCacheKey(Fetch)] = MockFail
    /\ callCount = 0
    /\ steps = <<>>
    /\ toolCalls = <<>>
    /\ resultCache = EmptyMap

====
